---------------------------- MODULE Spec2Model ----------------------------
(***************************************************************************)
(* Model of the template execution engine of yaklang/nuclei (v2).          *)
(*                                                                         *)
(* Part 1: the operators engine, v2/pkg/operators/operators.go             *)
(*   Operators.Compile, Operators.Execute and Result.Merge.                *)
(*                                                                         *)
(* Go values are modelled as follows.                                      *)
(*   - a map[string]T that is always allocated is a TLA+ function whose    *)
(*     DOMAIN is the key set;                                              *)
(*   - a map that may be nil (Result.PayloadValues, which Execute never    *)
(*     allocates) is a record [alloc, kv]: ranging over a nil map is legal *)
(*     in Go, assigning into it panics;                                    *)
(*   - a *Result that may be nil is carried beside an isNil flag;          *)
(*   - the MatchFunc / ExtractFunc callbacks are inputs of Execute: the    *)
(*     value match(data, matcher) is the field hit of the matcher, the set *)
(*     extract(data, extractor) is the field out of the extractor, and the *)
(*     order in which Go ranges over that set is chosen by the Execute     *)
(*     action (Go map iteration order is unspecified).                     *)
(***************************************************************************)
EXTENDS Integers, Sequences, FiniteSets, TLC

VARIABLES
    ops,        \* the Operators object (operators.go:10-22)
    pc,         \* life cycle of ops: "loaded", "compiled", "failed", "executed"
    produced,   \* per extractor, the order in which extract()'s set was ranged over
    ret,        \* what the last Operators.Execute returned
    ma, mb, mc, \* three Results handed to Result.Merge (never mutated)
    mx, my,     \* the Result objects Merge mutates in place (start as ma, mb)
    mstep,      \* which Merge calls have run so far
    requests,       \* e.requests, the chain of an Executer (each request's GetID())
    entry,          \* the entry point called: "Execute" or "ExecuteWithResults"
    epc,            \* position of the executer: "loop", "inreq", "done"
    reqIdx,         \* index of the request the for loop has reached
    dynamicValues,  \* the dynamicValues map of the invocation
    previous,       \* the previous map of the invocation
    results,        \* the local `results` of Executer.Execute
    emitted,        \* Output.Write calls (Execute) or callback(event) calls (ExecuteWithResults)
    elog,           \* history: the events the requests delivered, in delivery order
    calls,          \* history: per request started, the maps it was handed and its error
    eret,           \* what the entry point returned
    units,          \* finalTemplates: the kind of every unit of work
    targets,        \* the keys of r.hostMap
    limits,         \* r.options.TemplateThreads and r.options.BulkSize
    interactsh,     \* r.interactsh: "nil" or "client"
    issuesClient,   \* r.issuesClient: "nil" or "client"
    hostMap,        \* the keys stored in r.hostMap so far
    shut,           \* history: the shutdown steps taken, in order
    rpc,            \* position of RunEnumeration's own goroutine
    rnext,          \* how many units the for loop at runner.go:365 has launched
    ustate,         \* per unit, the position of its goroutine
    tstate,         \* per (unit, target), the position of its goroutine
    tret,           \* history: per (unit, target), what its executions returned
    uflag,          \* per unit, the results flag of process...WithList
    gflag,          \* the results flag of RunEnumeration
    gcas,           \* history: the values handed to the global flag's CAS, in order
    input,          \* the inputs of New: options.Target, the stdin lines, the lines of options.Targets
    ppc,            \* position of New's population: "direct", "stdin", "file", "done"
    pline,          \* how many lines of the current source have been read
    pstore,         \* the keys of runner.hostMap during New
    inputCount,     \* runner.inputCount
    dupeCount,      \* dupeCount of New
    plan,           \* the inputs of RunEnumeration: parsed templates, workflows, OfflineHTTP, inputCount
    qpc,            \* position of RunEnumeration: "build", "count", "fanout", "done", "fatal"
    finalTemplates, \* finalTemplates: the units of work
    estimate,       \* unclusteredRequests, totalRequests, templateCount, clusterCount
    msgs,           \* history: the messages logged from line 344 on
    progressInit,   \* r.progress.Init has been called
    xnext,          \* how many (unit, target) pairs have been executed
    wire,           \* history: per unit, the physical requests issued so far
    xlast,          \* history: the last execution, its matching members and its results
    wf,             \* a workflow invocation: the target bound as URL and the calls of its script
    wpc,            \* position of the invocation: "script", "returned", "exited", "panicked"
    wstep,          \* how many calls of the script have returned
    wruns,          \* history: the nested template runs, their target, events and return value
    pending,        \* the other (unit, target) pairs of the scan that are not executed yet
    othersRun,      \* history: how many of the other pairs have been executed
    client,         \* the reporting Client: its trackers, exporters and filter lists
    cpc,            \* position of CreateIssue: "call", "trackers", "exporters", "return", "done"
    cidx,           \* how many trackers resp. exporters the running loop has called
    cunique,        \* what c.dedupe.Index said: "unknown", "unique", "duplicate"
    cerr,           \* err of CreateIssue: the failures appended so far (<<>> is nil)
    ccalls,         \* history: the tracker and exporter calls made, with their outcome
    cret,           \* what CreateIssue returned
    cevent,         \* the event CreateIssue was called with
    ncalls,         \* how many CreateIssue calls have been made
    dstore,         \* the events the dedupe storage holds
    ilog,           \* history: the events handed to Index and its answers
    sent,           \* history: the events every tracker and exporter received
    sopts,          \* e.options of the Execute call: IssuesClient is "nil" or "client"
    sevents,        \* the events the callback of Execute is called with, in order
    spc,            \* position in the callback: "event", "result", "issue", "matched", "write", "count", "returned"
    sev,            \* index of the event the callback runs for
    sres,           \* index of the result the loop over event.Results is at
    sissues,        \* history: the CreateIssue calls, <<event, result, failed>>
    swritten,       \* history: the Output.Write calls, <<event, result>>
    scounted,       \* history: the IncrementMatched calls, <<event, result>>
    smatched,       \* the local variable results of Execute
    sret,           \* what Execute returned: "none", TRUE or FALSE as a string
    irequests,      \* e.requests of the Executer the concurrent invocations share
    ichain,         \* the maps of the invocations: dynamicValues and previous
    ipc,            \* position of each invocation: "new", "loop", "inreq", "done"
    inext,          \* index of the request each invocation is at
    ievents,        \* history: the events each invocation's requests delivered
    icalls,         \* history: the maps each invocation handed to its requests
    filter,         \* the reporting Filter: Severity, Tags and the compiled severity, tags
    fevent,         \* event.Info of the event GetMatch is asked about: severity, tags
    fpc,            \* "new", "compiled", "matched"
    fmatch,         \* what GetMatch returned
    nreq,           \* the network Request: Address as declared, addresses as compiled
    npc,            \* position of Compile: "loop", "rest", "compiled", "failed"
    nidx,           \* how many declared addresses the loop has taken
    shouldUseTLS    \* the local variable of Compile

opVars == <<ops, pc, produced, ret>>
mergeVars == <<ma, mb, mc, mx, my, mstep>>
execVars == <<requests, entry, epc, reqIdx, dynamicValues, previous, results,
              emitted, elog, calls, eret>>
runVars == <<units, targets, limits, interactsh, issuesClient, hostMap, shut, rpc, rnext, ustate, tstate,
             tret, uflag, gflag, gcas>>
popVars == <<input, ppc, pline, pstore, inputCount, dupeCount>>
planVars == <<plan, qpc, finalTemplates, estimate, msgs, progressInit, xnext, wire, xlast>>
wfVars == <<wf, wpc, wstep, wruns, pending, othersRun>>
repVars == <<client, cpc, cidx, cunique, cerr, ccalls, cret,
    cevent, ncalls, dstore, ilog, sent>>
sinkVars == <<sopts, sevents, spc, sev, sres, sissues, swritten, scounted, smatched, sret>>
invVars == <<irequests, ichain, ipc, inext, ievents, icalls>>
filterVars == <<filter, fevent, fpc, fmatch>>
netVars == <<nreq, npc, nidx, shouldUseTLS>>
vars == <<ops, pc, produced, ret, ma, mb, mc, mx, my, mstep,
          requests, entry, epc, reqIdx, dynamicValues, previous, results,
          emitted, elog, calls, eret,
          units, targets, limits, interactsh, issuesClient, hostMap, shut,
          rpc, rnext, ustate, tstate, tret, uflag, gflag, gcas,
          input, ppc, pline, pstore, inputCount, dupeCount,
          plan, qpc, finalTemplates, estimate, msgs, progressInit, xnext, wire, xlast,
          wf, wpc, wstep, wruns, pending, othersRun,
          client, cpc, cidx, cunique, cerr, ccalls, cret,
          cevent, ncalls, dstore, ilog, sent,
          sopts, sevents, spc, sev, sres, sissues, swritten, scounted, smatched, sret,
          irequests, ichain, ipc, inext, ievents, icalls,
          filter, fevent, fpc, fmatch,
          nreq, npc, nidx, shouldUseTLS>>

---------------------------------------------------------------------------
(* Bounds of the model *)

\* an Operators object holds at most this many matchers plus extractors
MaxOperators == 3

---------------------------------------------------------------------------
(* Small value universes *)

MatcherNames == {"", "p"}
ExtractorNames == {"", "n"}
\* "xor" stands for any string that names neither condition
ConditionStrings == {"", "and", "or", "xor"}

EmptyMap == [k \in {} |-> ""]

\* right-biased map union: for k, v := range g { f[k] = v }
Overwrite(f, g) ==
    [k \in (DOMAIN f) \cup (DOMAIN g) |-> IF k \in DOMAIN g THEN g[k] ELSE f[k]]

\* m[k] = v on an allocated map
Put(m, k, v) == [x \in (DOMAIN m) \cup {k} |-> IF x = k THEN v ELSE m[x]]

\* all orders in which a finite set can be enumerated
Orders(S) ==
    {s \in [1..Cardinality(S) -> S] : \A i, j \in 1..Cardinality(S) : i # j => s[i] # s[j]}

SeqToSet(s) == {s[i] : i \in 1..Len(s)}

\* a Go map that may be nil
NilMap == [alloc |-> FALSE, kv |-> EmptyMap]
GoMap(f) == [alloc |-> TRUE, kv |-> f]

---------------------------------------------------------------------------
(* matchers.ConditionType, declared in pkg/operators/matchers *)

ANDCondition == 1
ORCondition == 2

\* matchers.ConditionTypes[s]: a Go map lookup, the zero value for a missing key
ConditionTypes(s) ==
    IF s = "and" THEN ANDCondition
    ELSE IF s = "or" THEN ORCondition
    ELSE 0

---------------------------------------------------------------------------
(* Result, operators.go:50-66 *)

\* &Result{Matches: make(..), Extracts: make(..), DynamicValues: make(..)}
NewResult ==
    [Matched |-> FALSE, Extracted |-> FALSE, Matches |-> {},
     Extracts |-> EmptyMap, OutputExtracts |-> <<>>,
     DynamicValues |-> EmptyMap, PayloadValues |-> NilMap]


---------------------------------------------------------------------------
(* Operators.Compile, operators.go:25-43 *)

\* lines 26-30: resolve the condition string
ResolveCondition(o) ==
    [o EXCEPT !.matchersCondition =
        IF o.MatchersCondition # "" THEN ConditionTypes(o.MatchersCondition)
        ELSE ORCondition]

\* operators.go:46-48
GetMatchersCondition(o) == o.matchersCondition

---------------------------------------------------------------------------
(* Operators.Execute, operators.go:99-164 *)

\* a variant of StoreDynamic that assigns without the presence check of line 117
StoreDynamicOverwrites(dv, name, v) == Put(dv, name, v)

\* lines 116-119: an internal extractor's value is stored unless the name is taken
StoreDynamic(dv, name, v) ==
    IF name \in DOMAIN dv THEN dv ELSE Put(dv, name, v)

\* lines 113-123: the inner loop over the values one extractor produced
RECURSIVE RangeValues(_, _, _, _)
RangeValues(r, e, vals, i) ==
    IF i > Len(vals) THEN r
    ELSE IF e.Internal
         THEN RangeValues(
                [r EXCEPT !.DynamicValues = StoreDynamic(@, e.Name, vals[i])],
                e, vals, i + 1)
         ELSE RangeValues(
                [r EXCEPT !.OutputExtracts = Append(@, vals[i])],
                e, vals, i + 1)

\* lines 124-126: a named, non-internal extractor that produced something
StoreExtracts(ex, e, vals) ==
    IF Len(vals) > 0 /\ ~e.Internal /\ e.Name # ""
    THEN Put(ex, e.Name, vals)
    ELSE ex

\* lines 110-127: the loop over the extractors, in declaration order
RECURSIVE RunExtractors(_, _, _, _)
RunExtractors(r, es, prod, i) ==
    IF i > Len(es) THEN r
    ELSE LET r1 == RangeValues(r, es[i], prod[i], 1)
             r2 == [r1 EXCEPT !.Extracts = StoreExtracts(@, es[i], prod[i])]
         IN RunExtractors(r2, es, prod, i + 1)

\* line 133: a failed matcher ends the loop under AND
AbortsOnFail(cond) == cond = ANDCondition

\* lines 142-144: under OR a named matcher that fired is recorded
RecordMatch(names, cond, m) ==
    IF cond = ORCondition /\ m.Name # "" THEN names \cup {m.Name} ELSE names

\* a variant of RunMatchers that leaves the loop at the first matcher that fired
RECURSIVE RunMatchersStopsAtFirstHit(_, _, _, _)
RunMatchersStopsAtFirstHit(st, ms, cond, k) ==
    IF k > Len(ms) THEN st
    ELSE IF ~ms[k].hit
         THEN IF AbortsOnFail(cond)
              THEN [st EXCEPT !.calls = k, !.aborted = TRUE]
              ELSE RunMatchersStopsAtFirstHit([st EXCEPT !.calls = k], ms, cond, k + 1)
         ELSE [st EXCEPT !.calls = k, !.matches = TRUE,
                         !.names = RecordMatch(@, cond, ms[k])]

\* lines 129-147: the loop over the matchers; st = [matches, names, calls, aborted]
RECURSIVE RunMatchers(_, _, _, _)
RunMatchers(st, ms, cond, k) ==
    IF k > Len(ms) THEN st
    ELSE IF ~ms[k].hit
         THEN IF AbortsOnFail(cond)
              THEN [st EXCEPT !.calls = k, !.aborted = TRUE]
              ELSE RunMatchers([st EXCEPT !.calls = k], ms, cond, k + 1)
         ELSE RunMatchers(
                [st EXCEPT !.calls = k, !.matches = TRUE,
                           !.names = RecordMatch(@, cond, ms[k])],
                ms, cond, k + 1)

Returned(r, n) == [isNil |-> FALSE, result |-> r, report |-> TRUE, calls |-> n]
ReturnedNil(n) == [isNil |-> TRUE, result |-> NewResult, report |-> FALSE, calls |-> n]

\* a variant of EarlyReturn without the DynamicValues check of line 134
EarlyReturnDropsChain(r, n) == ReturnedNil(n)

\* lines 134-137: the return taken when a matcher failed under AND
EarlyReturn(r, n) ==
    IF DOMAIN r.DynamicValues # {} THEN Returned(r, n) ELSE ReturnedNil(n)

\* a variant of FinalReturn without the check of lines 155-157
FinalReturnIgnoresMatchers(r0, nMatchers, matches, n) ==
    LET r == [r0 EXCEPT !.Matched = matches,
                        !.Extracted = Len(r0.OutputExtracts) > 0]
    IN IF DOMAIN r.DynamicValues # {} THEN Returned(r, n)
       ELSE IF DOMAIN r.Extracts # {} \/ Len(r.OutputExtracts) > 0 \/ matches
            THEN Returned(r, n)
       ELSE ReturnedNil(n)

\* a variant of FinalReturn without the assignment of line 150
FinalReturnLeavesExtracted(r0, nMatchers, matches, n) ==
    LET r == [r0 EXCEPT !.Matched = matches]
    IN IF DOMAIN r.DynamicValues # {} THEN Returned(r, n)
       ELSE IF nMatchers > 0 /\ ~matches THEN ReturnedNil(n)
       ELSE IF DOMAIN r.Extracts # {} \/ Len(r.OutputExtracts) > 0 \/ matches
            THEN Returned(r, n)
       ELSE ReturnedNil(n)

\* lines 149-163: the reporting decision after the matcher loop ran to its end
FinalReturn(r0, nMatchers, matches, n) ==
    LET r == [r0 EXCEPT !.Matched = matches,
                        !.Extracted = Len(r0.OutputExtracts) > 0]
    IN IF DOMAIN r.DynamicValues # {} THEN Returned(r, n)
       ELSE IF nMatchers > 0 /\ ~matches THEN ReturnedNil(n)
       ELSE IF DOMAIN r.Extracts # {} \/ Len(r.OutputExtracts) > 0 \/ matches
            THEN Returned(r, n)
       ELSE ReturnedNil(n)

\* Execute(data, match, extract): prod[i] is the order in which the set
\* extract(data, Extractors[i]) is ranged over; calls counts the match() calls
ExecuteOp(o, prod) ==
    LET cond == GetMatchersCondition(o)
        r1 == RunExtractors(NewResult, o.Extractors, prod, 1)
        st == RunMatchers([matches |-> FALSE, names |-> {}, calls |-> 0,
                           aborted |-> FALSE], o.Matchers, cond, 1)
        r2 == [r1 EXCEPT !.Matches = st.names]
    IN IF st.aborted THEN EarlyReturn(r2, st.calls)
       ELSE FinalReturn(r2, Len(o.Matchers), st.matches, st.calls)

---------------------------------------------------------------------------
(* The operators state machine: load, compile, execute once *)

MatcherKinds == [Name : MatcherNames, hit : BOOLEAN]
\* what extract() may return: nothing, one value, two values
ProducedSets == SUBSET {"a", "b"}
ExtractorKinds == [Name : ExtractorNames, Internal : BOOLEAN, out : ProducedSets]

\* an Operators object as the YAML loader leaves it (matchersCondition still the
\* zero value)
Loaded(ms, es, c) ==
    [Matchers |-> ms, Extractors |-> es, MatchersCondition |-> c,
     matchersCondition |-> 0]

NotReturned == [isNil |-> TRUE, result |-> NewResult, report |-> FALSE, calls |-> 0]

\* the possible iteration orders over what each extractor produced
RECURSIVE Productions(_)
Productions(es) ==
    IF Len(es) = 0 THEN {<<>>}
    ELSE {Append(pr, o) : pr \in Productions(SubSeq(es, 1, Len(es) - 1)),
                          o \in Orders(es[Len(es)].out)}

\* no Merge call is under way
MergeIdle ==
    /\ ma = "none" /\ mb = "none" /\ mc = "none"
    /\ mx = "none" /\ my = "none"
    /\ mstep = "idle"

\* no Operators object is loaded
OperatorsIdle ==
    /\ ops = "none"
    /\ pc = "idle"
    /\ produced = <<>>
    /\ ret = "none"

\* no Executer is running
ExecuterIdle ==
    /\ requests = "none" /\ entry = "none"
    /\ epc = "idle" /\ reqIdx = 0
    /\ dynamicValues = "none" /\ previous = "none"
    /\ results = "none" /\ emitted = 0
    /\ elog = <<>> /\ calls = <<>>
    /\ eret = "none"

\* no enumeration is running
RunnerIdle ==
    /\ units = "none" /\ targets = "none" /\ limits = "none"
    /\ interactsh = "none" /\ issuesClient = "none"
    /\ hostMap = "none" /\ shut = <<>>
    /\ rpc = "idle" /\ rnext = 0
    /\ ustate = "none" /\ tstate = "none" /\ tret = "none"
    /\ uflag = "none" /\ gflag = "none" /\ gcas = <<>>

\* New is not populating a target store
PopulateIdle ==
    /\ input = "none" /\ ppc = "idle" /\ pline = 0
    /\ pstore = "none" /\ inputCount = 0 /\ dupeCount = 0

\* RunEnumeration is not preparing its units
PlanIdle ==
    /\ plan = "none" /\ qpc = "idle" /\ finalTemplates = <<>>
    /\ estimate = "none" /\ msgs = <<>> /\ progressInit = FALSE
    /\ xnext = 0 /\ wire = <<>> /\ xlast = "none"

\* no workflow script is running
WorkflowIdle ==
    /\ wf = "none" /\ wpc = "idle" /\ wstep = 0 /\ wruns = <<>> /\ pending = 0
    /\ othersRun = 0

\* no CreateIssue call is running
ReportingIdle ==
    /\ client = "none" /\ cpc = "idle" /\ cidx = 0 /\ cunique = "unknown"
    /\ cerr = <<>> /\ ccalls = <<>> /\ cret = "none"
    /\ cevent = "none" /\ ncalls = 0 /\ dstore = {} /\ ilog = <<>> /\ sent = <<>>

\* no result loop of Execute is running
SinkIdle ==
    /\ sopts = "none" /\ sevents = <<>> /\ spc = "idle" /\ sev = 0 /\ sres = 0
    /\ sissues = <<>> /\ swritten = <<>> /\ scounted = <<>>
    /\ smatched = FALSE /\ sret = "none"

\* no concurrent invocations are running
InvocationsIdle ==
    /\ irequests = <<>> /\ ichain = <<>> /\ ipc = <<>> /\ inext = <<>>
    /\ ievents = <<>> /\ icalls = <<>>

\* no Filter is in use
FilterIdle ==
    /\ filter = "none" /\ fevent = "none" /\ fpc = "idle" /\ fmatch = "none"

\* no network Request is compiled
NetworkIdle ==
    /\ nreq = "none" /\ npc = "idle" /\ nidx = 0 /\ shouldUseTLS = "none"

\* every Operators object with at most MaxOperators matchers and extractors
InitOperators ==
    /\ \E e \in 0..MaxOperators : \E m \in 0..(MaxOperators - e) :
          \E es \in [1..e -> ExtractorKinds] : \E ms \in [1..m -> MatcherKinds] :
             \E c \in ConditionStrings : ops = Loaded(ms, es, c)
    /\ pc = "loaded"
    /\ produced = <<>>
    /\ ret = NotReturned
    /\ MergeIdle
    /\ ExecuterIdle
    /\ RunnerIdle /\ PopulateIdle /\ PlanIdle /\ WorkflowIdle
    /\ ReportingIdle /\ SinkIdle /\ InvocationsIdle /\ FilterIdle
    /\ NetworkIdle

\* Compile returns nil
Compile ==
    /\ pc = "loaded"
    /\ ops' = ResolveCondition(ops)
    /\ pc' = "compiled"
    /\ UNCHANGED <<produced, ret>>

\* Compile returns an error: compiling a matcher or extractor pattern failed
\* (lines 32-41), after the condition was resolved
CompileError ==
    /\ pc = "loaded"
    /\ Len(ops.Matchers) + Len(ops.Extractors) > 0
    /\ ops' = ResolveCondition(ops)
    /\ pc' = "failed"
    /\ UNCHANGED <<produced, ret>>

Execute ==
    /\ pc = "compiled"
    /\ \E pr \in Productions(ops.Extractors) :
          /\ produced' = pr
          /\ ret' = ExecuteOp(ops, pr)
    /\ pc' = "executed"
    /\ UNCHANGED ops

---------------------------------------------------------------------------
(* Result.Merge, operators.go:69-90 *)

\* lines 70-75: if !r.Matched && result.Matched { r.Matched = result.Matched }
MergeFlag(mine, theirs) == IF ~mine /\ theirs THEN theirs ELSE mine

\* lines 80-82: r.Extracts[k] = v for every key of the other Result
MergeExtracts(mine, theirs) == Overwrite(mine, theirs)

\* lines 87-89 assign into r.PayloadValues: a panic when that map is nil and
\* the loop body runs at least once
MergePanics(r, o) ==
    ~r.PayloadValues.alloc /\ DOMAIN o.PayloadValues.kv # {}

\* lines 70-86: everything Merge does before it ranges over PayloadValues
MergeUpToPayload(r, o) ==
    [r EXCEPT !.Matched = MergeFlag(r.Matched, o.Matched),
              !.Extracted = MergeFlag(r.Extracted, o.Extracted),
              !.Matches = r.Matches \cup o.Matches,
              !.Extracts = MergeExtracts(r.Extracts, o.Extracts),
              !.OutputExtracts = r.OutputExtracts \o o.OutputExtracts,
              !.DynamicValues = Overwrite(r.DynamicValues, o.DynamicValues)]

\* r.Merge(o): the receiver afterwards, and whether the call panicked
MergeOp(r, o) ==
    LET r1 == MergeUpToPayload(r, o)
    IN IF MergePanics(r, o)
       THEN [panic |-> TRUE, r |-> r1]
       ELSE [panic |-> FALSE,
             r |-> [r1 EXCEPT !.PayloadValues.kv =
                                 Overwrite(@, o.PayloadValues.kv)]]

---------------------------------------------------------------------------
(* The Merge state machine: three Results, merged in either grouping *)

\* the payload maps a protocol request attaches to a Result (nil when it has none)
PayloadMaps == {NilMap, GoMap(EmptyMap), GoMap([k \in {"user"} |-> "a"])}

\* Operators with at most one named extractor and one named matcher, compiled
SmallOperators ==
    {ResolveCondition(Loaded(ms, es, "or")) :
        ms \in [1..0 -> MatcherKinds] \cup [1..1 -> {m \in MatcherKinds : m.Name # ""}],
        es \in [1..0 -> ExtractorKinds] \cup [1..1 -> {e \in ExtractorKinds : e.Name # ""}]}

\* the Results Execute returns for them, and the freshly allocated Result
ExecuteResults ==
    {NewResult} \cup
    UNION {{ExecuteOp(o, pr).result : pr \in Productions(o.Extractors)} :
              o \in SmallOperators}

MergeInputs ==
    {[r EXCEPT !.PayloadValues = pv] : r \in ExecuteResults, pv \in PayloadMaps}

InitMerge ==
    /\ ma \in MergeInputs /\ mb \in MergeInputs /\ mc \in MergeInputs
    /\ mx = ma /\ my = mb
    /\ mstep = "start"
    /\ OperatorsIdle
    /\ ExecuterIdle
    /\ RunnerIdle /\ PopulateIdle /\ PlanIdle /\ WorkflowIdle
    /\ ReportingIdle /\ SinkIdle /\ InvocationsIdle /\ FilterIdle
    /\ NetworkIdle

\* mx.Merge(my) as the first call
MergeXY ==
    /\ mstep = "start"
    /\ LET out == MergeOp(mx, my)
       IN /\ mx' = out.r
          /\ mstep' = IF out.panic THEN "panic" ELSE "xy"
    /\ UNCHANGED <<ma, mb, mc, my>>

\* then mx.Merge(mc): (a merged with b) merged with c
MergeXZ ==
    /\ mstep = "xy"
    /\ LET out == MergeOp(mx, mc)
       IN /\ mx' = out.r
          /\ mstep' = IF out.panic THEN "panic" ELSE "xy_z"
    /\ UNCHANGED <<ma, mb, mc, my>>

\* my.Merge(mc) as the first call
MergeYZ ==
    /\ mstep = "start"
    /\ LET out == MergeOp(my, mc)
       IN /\ my' = out.r
          /\ mstep' = IF out.panic THEN "panic" ELSE "yz"
    /\ UNCHANGED <<ma, mb, mc, mx>>

\* then mx.Merge(my): a merged with (b merged with c)
MergeXthenYZ ==
    /\ mstep = "yz"
    /\ LET out == MergeOp(mx, my)
       IN /\ mx' = out.r
          /\ mstep' = IF out.panic THEN "panic" ELSE "x_yz"
    /\ UNCHANGED <<ma, mb, mc, my>>

NextOperators ==
    \/ Compile /\ UNCHANGED <<mergeVars, execVars, runVars, popVars, planVars, wfVars, repVars, sinkVars, invVars, filterVars, netVars>>
    \/ CompileError /\ UNCHANGED <<mergeVars, execVars, runVars, popVars, planVars, wfVars, repVars, sinkVars, invVars, filterVars, netVars>>
    \/ Execute /\ UNCHANGED <<mergeVars, execVars, runVars, popVars, planVars, wfVars, repVars, sinkVars, invVars, filterVars, netVars>>

NextMerge ==
    \/ MergeXY /\ UNCHANGED <<opVars, execVars, runVars, popVars, planVars, wfVars, repVars, sinkVars, invVars, filterVars, netVars>>
    \/ MergeXZ /\ UNCHANGED <<opVars, execVars, runVars, popVars, planVars, wfVars, repVars, sinkVars, invVars, filterVars, netVars>>
    \/ MergeYZ /\ UNCHANGED <<opVars, execVars, runVars, popVars, planVars, wfVars, repVars, sinkVars, invVars, filterVars, netVars>>
    \/ MergeXthenYZ /\ UNCHANGED <<opVars, execVars, runVars, popVars, planVars, wfVars, repVars, sinkVars, invVars, filterVars, netVars>>

SpecOperators == InitOperators /\ [][NextOperators]_vars

SpecMerge == InitMerge /\ [][NextMerge]_vars

---------------------------------------------------------------------------
(* Part 2: the Executer, v2/pkg/protocols/common/executer/executer.go      *)
(*                                                                         *)
(* An Executer drives the chain e.requests for one input.  A request is    *)
(* anything that implements protocols.Request: what the model knows of it  *)
(* is its GetID(), the events it hands to the callback while its           *)
(* ExecuteWithResults runs, and the error it returns.  The events and the  *)
(* error are inputs, chosen when they happen.                              *)

\* a chain has at most this many requests
MaxRequests == 2
\* the requests of one invocation deliver at most this many events together
MaxEvents == 2
RequestIDs == {"", "req1"}
FieldNames == {"token"}
FieldValues == {"abc123", "zzz"}
\* len(event.Results): an event with no ResultEvent, or with some
ResultCounts == {0, 1}

\* output.InternalEvent: the named fields of one event
InternalEvents == {[k \in {f} |-> v] : f \in FieldNames, v \in FieldValues}

\* event.OperatorsResult: nil, or a *operators.Result (of which the chain
\* reads DynamicValues only)
NilResult == [isNil |-> TRUE, DynamicValues |-> EmptyMap]
OperatorsResults ==
    {NilResult} \cup
    {[isNil |-> FALSE, DynamicValues |-> dv] : dv \in {EmptyMap, [k \in {"token"} |-> "abc123"]}}

\* output.InternalWrappedEvent; Results is len(event.Results)
Events ==
    {[InternalEvent |-> ie, OperatorsResult |-> NilResult, Results |-> 0] :
        ie \in InternalEvents} \cup
    {[InternalEvent |-> ie, OperatorsResult |-> opr, Results |-> n] :
        ie \in InternalEvents, opr \in OperatorsResults \ {NilResult}, n \in ResultCounts}

\* builder.WriteString(ID); builder.WriteString("_"); builder.WriteString(k)
PreviousKey(ID, k) == ID \o "_" \o k

\* the fields of one event under their previous keys
Namespaced(ID, ie) ==
    [key \in {PreviousKey(ID, k) : k \in DOMAIN ie} |->
        ie[CHOOSE k \in DOMAIN ie : PreviousKey(ID, k) = key]]

StorePreviousWithoutID(prev, ID, ie) == Overwrite(prev, Namespaced(ID, ie))

\* if ID != "" { for k, v := range event.InternalEvent { previous[ID_k] = v } }
StorePrevious(prev, ID, ie) ==
    IF ID # "" THEN Overwrite(prev, Namespaced(ID, ie)) ELSE prev

\* what a request leaves in the dynamicValues map it was handed: the
\* executer stores nothing in the map and hands it on as it is
HandDynamicValues(dv, ev) == dv

ReportsWithoutResult(ev) == TRUE

\* if event.OperatorsResult == nil { return }: the callback goes on only
\* for an event with an Operators Result
Reported(ev) == ~ev.OperatorsResult.isNil

MatchedOnOperatorsResult(res, ev) == TRUE

\* for _, result := range event.Results { ...; results = true; ... }
MatchedAfter(res, ev) == res \/ ev.Results > 0

\* Execute's callback writes every ResultEvent, ExecuteWithResults's
\* callback hands the event on once
EmittedBy(e, ev) == IF e = "Execute" THEN ev.Results ELSE 1

ReturnsTheError(e, res, errs) ==
    [matched |-> IF e = "Execute" THEN res ELSE "none",
     err |-> IF \E i \in 1..Len(errs) : errs[i].err = "error" THEN "error" ELSE "nil"]

\* return results, nil   /   return nil
ExecuterReturn(e, res, errs) ==
    [matched |-> IF e = "Execute" THEN res ELSE "none", err |-> "nil"]

StartsWhileRunning(p) == p \in {"loop", "inreq"}

\* the range loop is at its head: the call of the request before has returned
AtLoopHead(p) == p = "loop"

InitExecuter ==
    /\ \E n \in 1..MaxRequests : requests \in [1..n -> [ID : RequestIDs]]
    /\ entry \in {"Execute", "ExecuteWithResults"}
    /\ epc = "loop" /\ reqIdx = 0
    /\ dynamicValues = EmptyMap /\ previous = EmptyMap
    /\ results = FALSE /\ emitted = 0
    /\ elog = <<>> /\ calls = <<>>
    /\ eret = "none"
    /\ OperatorsIdle /\ MergeIdle /\ RunnerIdle /\ PopulateIdle
    /\ PlanIdle /\ WorkflowIdle /\ ReportingIdle /\ SinkIdle /\ InvocationsIdle
    /\ FilterIdle /\ NetworkIdle

\* the loop takes the next request and calls its ExecuteWithResults
StartRequest ==
    /\ AtLoopHead(epc)
    /\ reqIdx < Len(requests)
    /\ reqIdx' = reqIdx + 1
    /\ epc' = "inreq"
    /\ calls' = Append(calls, [req |-> reqIdx + 1, dv |-> dynamicValues,
                               prev |-> previous, err |-> "running"])
    /\ UNCHANGED <<requests, entry, dynamicValues, previous, results, emitted, elog, eret>>

\* the running request hands one event to the executer's callback
Callback ==
    /\ epc = "inreq"
    /\ Len(elog) < MaxEvents
    /\ \E ev \in Events :
          /\ elog' = Append(elog, [req |-> reqIdx, ev |-> ev])
          /\ previous' = StorePrevious(previous, requests[reqIdx].ID, ev.InternalEvent)
          /\ dynamicValues' = HandDynamicValues(dynamicValues, ev)
          /\ IF ~Reported(ev)
             THEN UNCHANGED <<results, emitted>>
             ELSE /\ results' = IF entry = "Execute" THEN MatchedAfter(results, ev) ELSE results
                  /\ emitted' = emitted + EmittedBy(entry, ev)
    /\ UNCHANGED <<requests, entry, epc, reqIdx, calls, eret>>

\* the running request returns; an error is logged and the loop goes on
RequestReturns ==
    /\ epc = "inreq"
    /\ \E err \in {"nil", "error"} : calls' = [calls EXCEPT ![reqIdx].err = err]
    /\ epc' = "loop"
    /\ UNCHANGED <<requests, entry, reqIdx, dynamicValues, previous, results, emitted, elog, eret>>

\* the loop is over
ExecuterReturns ==
    /\ AtLoopHead(epc)
    /\ reqIdx = Len(requests)
    /\ eret' = ExecuterReturn(entry, results, calls)
    /\ epc' = "done"
    /\ UNCHANGED <<requests, entry, reqIdx, dynamicValues, previous, results, emitted, elog, calls>>

NextExecuter ==
    \/ StartRequest /\ UNCHANGED <<opVars, mergeVars, runVars, popVars, planVars, wfVars, repVars, sinkVars, invVars, filterVars, netVars>>
    \/ Callback /\ UNCHANGED <<opVars, mergeVars, runVars, popVars, planVars, wfVars, repVars, sinkVars, invVars, filterVars, netVars>>
    \/ RequestReturns /\ UNCHANGED <<opVars, mergeVars, runVars, popVars, planVars, wfVars, repVars, sinkVars, invVars, filterVars, netVars>>
    \/ ExecuterReturns /\ UNCHANGED <<opVars, mergeVars, runVars, popVars, planVars, wfVars, repVars, sinkVars, invVars, filterVars, netVars>>

SpecExecuter == InitExecuter /\ [][NextExecuter]_vars

---------------------------------------------------------------------------
(* Part 3: the fan-out of Runner.RunEnumeration, v2/internal/runner        *)
(*                                                                         *)
(* One goroutine per unit of finalTemplates, at most TemplateThreads at a  *)
(* time; each of them ranges over the targets of r.hostMap and starts one  *)
(* goroutine per target, at most BulkSize at a time.  What an execution    *)
(* returns is an input, chosen when it returns.                            *)

\* finalTemplates holds at most this many units
MaxUnits == 2
\* r.hostMap holds at most this many targets
MaxTargets == 2
\* TemplateThreads and BulkSize are at most this
MaxThreads == 2

\* len(template.Workflows) > 0 or not (a cluster is a template as well)
UnitKinds == {"template", "workflow"}

Unit == 1..Len(units)

CASStores(cur, old, new) == new

\* atomic.Bool.CAS(old, new): store new if the flag holds old
CAS(cur, old, new) == IF cur = old THEN new ELSE cur

LoadsFalse(f) == FALSE

\* atomic.Bool.Load()
Load(f) == f

AddNeverBlocks(n, limit) == TRUE

\* sizedwaitgroup Add(): returns once fewer than limit Adds are not Done
CanAdd(n, limit) == n < limit

WaitReturnsAtOnce(S) == TRUE

\* sizedwaitgroup Wait(): returns once every Add is Done
WaitReturns(S) == S = {}

PopulatesInBackground(hm, ts) == TRUE

\* the loops of New over its inputs have ended
PopulateDone(hm, ts) == hm = ts

ClosesBeforeJoin(p) == p \in {"launch", "joined"}

\* wgtemplates.Wait() has returned
AfterJoin(p) == p = "joined"

\* the unit goroutines that are not Done
UnitsInFlight == {u \in Unit : ustate[u] \in {"scan", "joined"}}

DoneKeepsSlot(u) == {t \in targets : tstate[u][t] # "new"}

\* the target goroutines of unit u that are not Done
TargetsInFlight(u) == {t \in targets : tstate[u][t] \in {"exec", "hung", "ret"}}

InitRunner ==
    /\ \E n \in 1..MaxUnits : units \in [1..n -> UnitKinds]
    /\ \E k \in 1..MaxTargets : targets = 1..k
    /\ limits \in [TemplateThreads : 1..MaxThreads, BulkSize : 1..MaxThreads]
    /\ interactsh \in {"nil", "client"}
    /\ issuesClient \in {"nil", "client"}
    /\ hostMap = {} /\ shut = <<>>
    /\ rpc = "populate" /\ rnext = 0
    /\ ustate = [u \in Unit |-> "new"]
    /\ tstate = [u \in Unit |-> [t \in targets |-> "new"]]
    /\ tret = [u \in Unit |-> [t \in targets |-> <<>>]]
    /\ uflag = [u \in Unit |-> FALSE]
    /\ gflag = FALSE
    /\ gcas = <<>>
    /\ OperatorsIdle /\ MergeIdle /\ ExecuterIdle /\ PopulateIdle
    /\ PlanIdle /\ WorkflowIdle /\ ReportingIdle /\ SinkIdle /\ InvocationsIdle
    /\ FilterIdle /\ NetworkIdle

\* New stores one more of the given targets: runner.hostMap.Set(url, nil)
SetTarget ==
    /\ hostMap # targets
    /\ hostMap' = hostMap \cup {CHOOSE t \in targets \ hostMap : \A x \in targets \ hostMap : t <= x}
    /\ UNCHANGED <<units, targets, limits, interactsh, issuesClient, shut, rpc, rnext,
                   ustate, tstate, tret, uflag, gflag, gcas>>

\* New has read all its input and returns; RunEnumeration runs up to the fan-out
StartEnumeration ==
    /\ rpc = "populate"
    /\ PopulateDone(hostMap, targets)
    /\ rpc' = "launch"
    /\ UNCHANGED <<units, targets, limits, interactsh, issuesClient, hostMap, shut, rnext,
                   ustate, tstate, tret, uflag, gflag, gcas>>

\* wgtemplates.Add(); go func(template) {...}(t)
LaunchUnit ==
    /\ rpc = "launch"
    /\ rnext < Len(units)
    /\ CanAdd(Cardinality(UnitsInFlight), limits.TemplateThreads)
    /\ rnext' = rnext + 1
    /\ ustate' = [ustate EXCEPT ![rnext + 1] = "scan"]
    /\ UNCHANGED <<units, targets, limits, interactsh, issuesClient, hostMap, shut, rpc, tstate, tret, uflag, gflag, gcas>>

\* the Scan visitor of a unit: wg.Add(); go func(URL) {...}(URL), which
\* calls Executer.Execute(URL) or CompiledWorkflow.RunWorkflow(URL)
ScanTarget ==
    \E u \in Unit : \E t \in hostMap :
        /\ ustate[u] = "scan"
        /\ tstate[u][t] = "new"
        /\ CanAdd(Cardinality(TargetsInFlight(u)), limits.BulkSize)
        /\ tstate' = [tstate EXCEPT ![u][t] = "exec"]
        /\ UNCHANGED <<units, targets, limits, interactsh, issuesClient, hostMap, shut, rpc, rnext, ustate, tret, uflag, gflag, gcas>>

\* the execution of one (unit, target) pair returns its match
TargetReturns ==
    \E u \in Unit : \E t \in targets : \E match \in BOOLEAN :
        /\ tstate[u][t] = "exec"
        /\ tstate' = [tstate EXCEPT ![u][t] = "ret"]
        /\ tret' = [tret EXCEPT ![u][t] = Append(@, match)]
        /\ UNCHANGED <<units, targets, limits, interactsh, issuesClient, hostMap, shut, rpc, rnext, ustate, uflag, gflag, gcas>>

\* the execution of one (unit, target) pair never returns (a hung transport
\* or workflow script): its goroutine stays in the call for ever
ExecuteHangs ==
    \E u \in Unit : \E t \in targets :
        /\ tstate[u][t] = "exec"
        /\ tstate' = [tstate EXCEPT ![u][t] = "hung"]
        /\ UNCHANGED <<units, targets, limits, interactsh, issuesClient, hostMap, shut, rpc, rnext, ustate, tret, uflag, gflag, gcas>>

\* results.CAS(false, match); deferred wg.Done()
TargetDone ==
    \E u \in Unit : \E t \in targets :
        /\ tstate[u][t] = "ret"
        /\ uflag' = [uflag EXCEPT ![u] = CAS(@, FALSE, tret[u][t][Len(tret[u][t])])]
        /\ tstate' = [tstate EXCEPT ![u][t] = "done"]
        /\ UNCHANGED <<units, targets, limits, interactsh, issuesClient, hostMap, shut, rpc, rnext, ustate, tret, gflag, gcas>>

\* Scan has visited every target and wg.Wait() returns
UnitJoin ==
    \E u \in Unit :
        /\ ustate[u] = "scan"
        /\ \A t \in hostMap : tstate[u][t] # "new"
        /\ WaitReturns(TargetsInFlight(u))
        /\ ustate' = [ustate EXCEPT ![u] = "joined"]
        /\ UNCHANGED <<units, targets, limits, interactsh, issuesClient, hostMap, shut, rpc, rnext, tstate, tret, uflag, gflag, gcas>>

\* results.CAS(false, r.process...WithList(template)); deferred wgtemplates.Done()
UnitDone ==
    \E u \in Unit :
        /\ ustate[u] = "joined"
        /\ gflag' = CAS(gflag, FALSE, Load(uflag[u]))
        /\ gcas' = Append(gcas, [by |-> "unit", v |-> Load(uflag[u])])
        /\ ustate' = [ustate EXCEPT ![u] = "done"]
        /\ UNCHANGED <<units, targets, limits, interactsh, issuesClient, hostMap, shut, rpc, rnext, tstate, tret, uflag>>

\* the for loop is over and wgtemplates.Wait() returns
TemplatesJoin ==
    /\ rpc = "launch"
    /\ rnext = Len(units)
    /\ WaitReturns(UnitsInFlight)
    /\ rpc' = "joined"
    /\ UNCHANGED <<units, targets, limits, interactsh, issuesClient, hostMap, shut, rnext, ustate, tstate, tret, uflag, gflag, gcas>>

\* if r.interactsh != nil { matched := Close(); if matched { results.CAS(false, true) } }
InteractshClose ==
    /\ AfterJoin(rpc)
    /\ \E matched \in BOOLEAN :
          IF interactsh = "client" /\ matched
          THEN /\ gflag' = CAS(gflag, FALSE, TRUE)
               /\ gcas' = Append(gcas, [by |-> "interactsh", v |-> TRUE])
          ELSE UNCHANGED <<gflag, gcas>>
    /\ shut' = IF interactsh = "client" THEN Append(shut, "interactsh.Close") ELSE shut
    /\ rpc' = "closed"
    /\ UNCHANGED <<units, targets, limits, interactsh, issuesClient, hostMap, rnext, ustate, tstate, tret, uflag>>

\* r.progress.Stop()
ProgressStop ==
    /\ rpc = "closed"
    /\ shut' = Append(shut, "progress.Stop")
    /\ rpc' = "stopped"
    /\ UNCHANGED <<units, targets, limits, interactsh, issuesClient, hostMap, rnext,
                   ustate, tstate, tret, uflag, gflag, gcas>>

\* if r.issuesClient != nil { r.issuesClient.Close() }
IssuesClose ==
    /\ rpc = "stopped"
    /\ shut' = IF issuesClient = "client" THEN Append(shut, "issuesClient.Close") ELSE shut
    /\ rpc' = "reported"
    /\ UNCHANGED <<units, targets, limits, interactsh, issuesClient, hostMap, rnext,
                   ustate, tstate, tret, uflag, gflag, gcas>>

\* if !results.Load() { "No results found" }
Summary ==
    /\ rpc = "reported"
    /\ rpc' = IF Load(gflag) THEN "found" ELSE "nothing"
    /\ shut' = Append(shut, "summary")
    /\ UNCHANGED <<units, targets, limits, interactsh, issuesClient, hostMap, rnext,
                   ustate, tstate, tret, uflag, gflag, gcas>>

\* RunEnumeration returns and the deferred r.Close() runs:
\* r.output.Close(); r.hostMap.Close()
RunnerClose ==
    /\ rpc \in {"found", "nothing"}
    /\ shut' = shut \o <<"output.Close", "hostMap.Close">>
    /\ rpc' = "exit"
    /\ UNCHANGED <<units, targets, limits, interactsh, issuesClient, hostMap, rnext,
                   ustate, tstate, tret, uflag, gflag, gcas>>

NextRunner ==
    \/ SetTarget /\ UNCHANGED <<opVars, mergeVars, execVars, popVars, planVars, wfVars, repVars, sinkVars, invVars, filterVars, netVars>>
    \/ StartEnumeration /\ UNCHANGED <<opVars, mergeVars, execVars, popVars, planVars, wfVars, repVars, sinkVars, invVars, filterVars, netVars>>
    \/ LaunchUnit /\ UNCHANGED <<opVars, mergeVars, execVars, popVars, planVars, wfVars, repVars, sinkVars, invVars, filterVars, netVars>>
    \/ ScanTarget /\ UNCHANGED <<opVars, mergeVars, execVars, popVars, planVars, wfVars, repVars, sinkVars, invVars, filterVars, netVars>>
    \/ TargetReturns /\ UNCHANGED <<opVars, mergeVars, execVars, popVars, planVars, wfVars, repVars, sinkVars, invVars, filterVars, netVars>>
    \/ ExecuteHangs /\ UNCHANGED <<opVars, mergeVars, execVars, popVars, planVars, wfVars, repVars, sinkVars, invVars, filterVars, netVars>>
    \/ TargetDone /\ UNCHANGED <<opVars, mergeVars, execVars, popVars, planVars, wfVars, repVars, sinkVars, invVars, filterVars, netVars>>
    \/ UnitJoin /\ UNCHANGED <<opVars, mergeVars, execVars, popVars, planVars, wfVars, repVars, sinkVars, invVars, filterVars, netVars>>
    \/ UnitDone /\ UNCHANGED <<opVars, mergeVars, execVars, popVars, planVars, wfVars, repVars, sinkVars, invVars, filterVars, netVars>>
    \/ TemplatesJoin /\ UNCHANGED <<opVars, mergeVars, execVars, popVars, planVars, wfVars, repVars, sinkVars, invVars, filterVars, netVars>>
    \/ InteractshClose /\ UNCHANGED <<opVars, mergeVars, execVars, popVars, planVars, wfVars, repVars, sinkVars, invVars, filterVars, netVars>>
    \/ ProgressStop /\ UNCHANGED <<opVars, mergeVars, execVars, popVars, planVars, wfVars, repVars, sinkVars, invVars, filterVars, netVars>>
    \/ IssuesClose /\ UNCHANGED <<opVars, mergeVars, execVars, popVars, planVars, wfVars, repVars, sinkVars, invVars, filterVars, netVars>>
    \/ Summary /\ UNCHANGED <<opVars, mergeVars, execVars, popVars, planVars, wfVars, repVars, sinkVars, invVars, filterVars, netVars>>
    \/ RunnerClose /\ UNCHANGED <<opVars, mergeVars, execVars, popVars, planVars, wfVars, repVars, sinkVars, invVars, filterVars, netVars>>

SpecRunner == InitRunner /\ [][NextRunner]_vars

\* the Go scheduler runs a goroutine that can take a step
SpecRunnerLive == SpecRunner /\ WF_vars(NextRunner)

---------------------------------------------------------------------------
(* Part 4: population of the target store in New (runner.go:127-186).     *)
(* A line is a sequence of characters; " " stands for white space.        *)

\* stdin and the target file hold at most this many lines each
MaxLines == 2

\* the lines an input source can hold
InputLines ==
    {<<>>, <<" ">>, <<"a">>, <<" ", "a">>, <<"a", " ">>, <<"b">>}

\* strings.TrimSpace: the line without its leading and trailing white space
RECURSIVE TrimSpace(_)
TrimSpace(l) ==
    IF l = <<>> THEN l
    ELSE IF Head(l) = " " THEN TrimSpace(Tail(l))
    ELSE IF l[Len(l)] = " " THEN TrimSpace(SubSeq(l, 1, Len(l) - 1))
    ELSE l

GetNeverFinds(store, url) == FALSE

\* _, ok := runner.hostMap.Get(url)
GetOk(store, url) == url \in store

\* every input of New with at most MaxLines lines per source
InitPopulate ==
    /\ \E t \in InputLines :
         \E n \in 0..MaxLines : \E k \in 0..MaxLines :
            \E sl \in [1..n -> InputLines] : \E fl \in [1..k -> InputLines] :
               input = [Target |-> t, Stdin |-> sl, Targets |-> fl]
    /\ ppc = "direct" /\ pline = 0
    /\ pstore = {} /\ inputCount = 0 /\ dupeCount = 0
    /\ OperatorsIdle /\ MergeIdle /\ ExecuterIdle /\ RunnerIdle
    /\ PlanIdle /\ WorkflowIdle /\ ReportingIdle /\ SinkIdle /\ InvocationsIdle
    /\ FilterIdle /\ NetworkIdle

\* if options.Target != "" { runner.inputCount++; runner.hostMap.Set(options.Target, nil) }
DirectTarget ==
    /\ ppc = "direct"
    /\ IF input.Target # <<>>
       THEN /\ inputCount' = inputCount + 1
            /\ pstore' = pstore \cup {input.Target}
       ELSE UNCHANGED <<inputCount, pstore>>
    /\ ppc' = "stdin"
    /\ UNCHANGED <<input, pline, dupeCount>>

\* the body of the scanner loops at runner.go:146-157 and 169-180
ReadLine(src, lines) ==
    /\ ppc = src
    /\ pline < Len(lines)
    /\ pline' = pline + 1
    /\ LET url == TrimSpace(lines[pline + 1])
       IN  IF url = <<>>
           THEN UNCHANGED <<pstore, inputCount, dupeCount>>
           ELSE IF GetOk(pstore, url)
           THEN /\ dupeCount' = dupeCount + 1
                /\ UNCHANGED <<pstore, inputCount>>
           ELSE /\ inputCount' = inputCount + 1
                /\ pstore' = pstore \cup {url}
                /\ UNCHANGED dupeCount
    /\ UNCHANGED <<input, ppc>>

\* one line of stdin
ReadStdinLine == ReadLine("stdin", input.Stdin)

\* scanner.Scan() returns false on stdin
StdinEOF ==
    /\ ppc = "stdin"
    /\ pline = Len(input.Stdin)
    /\ ppc' = "file" /\ pline' = 0
    /\ UNCHANGED <<input, pstore, inputCount, dupeCount>>

\* one line of the file options.Targets
ReadFileLine == ReadLine("file", input.Targets)

\* scanner.Scan() returns false on the target file; input.Close()
FileEOF ==
    /\ ppc = "file"
    /\ pline = Len(input.Targets)
    /\ ppc' = "done" /\ pline' = 0
    /\ UNCHANGED <<input, pstore, inputCount, dupeCount>>

NextPopulate ==
    \/ DirectTarget /\ UNCHANGED <<opVars, mergeVars, execVars, runVars, planVars, wfVars, repVars, sinkVars, invVars, filterVars, netVars>>
    \/ ReadStdinLine /\ UNCHANGED <<opVars, mergeVars, execVars, runVars, planVars, wfVars, repVars, sinkVars, invVars, filterVars, netVars>>
    \/ StdinEOF /\ UNCHANGED <<opVars, mergeVars, execVars, runVars, planVars, wfVars, repVars, sinkVars, invVars, filterVars, netVars>>
    \/ ReadFileLine /\ UNCHANGED <<opVars, mergeVars, execVars, runVars, planVars, wfVars, repVars, sinkVars, invVars, filterVars, netVars>>
    \/ FileEOF /\ UNCHANGED <<opVars, mergeVars, execVars, runVars, planVars, wfVars, repVars, sinkVars, invVars, filterVars, netVars>>

SpecPopulate == InitPopulate /\ [][NextPopulate]_vars

---------------------------------------------------------------------------
(* Part 5: RunEnumeration from the parsed templates to the fan-out        *)
(* (runner.go:288-363).  A template is its protocol and, per request      *)
(* block, the number of requests the block performs; two HTTP templates   *)
(* with the same blocks have the same request.  The clusterer package is  *)
(* modelled from its specification.                                       *)

\* availableTemplates holds at most this many templates
MaxTemplates == 3
\* availableWorkflows holds at most this many workflows
MaxWorkflows == 1

\* the request blocks of an HTTP template, each block its number of paths
HTTPBlocks ==
    {<<0>>, <<1>>, <<2>>, <<1, 1>>}

\* the parsed plain templates: HTTP ones, and a file one of one request block
PlainTemplates ==
    {[proto |-> "http", blocks |-> b] : b \in HTTPBlocks}
        \cup {[proto |-> "file", blocks |-> <<1>>]}

\* the sum of a sequence of numbers
RECURSIVE SumSeq(_)
SumSeq(s) == IF s = <<>> THEN 0 ELSE Head(s) + SumSeq(Tail(s))

\* Executer.Requests(): the sum of request.Requests() over the requests; an
\* HTTP request without payloads performs len(Path) requests
TotalRequests(t) == SumSeq(t.blocks)

\* templates i and j of ts have the same network-observable request
SameRequest(ts, i, j) ==
    /\ ts[i].proto = "http" /\ ts[j].proto = "http"
    /\ ts[i].blocks = ts[j].blocks

\* clusterer.Cluster: the partition of the templates by their request, each
\* cluster a sequence of indices, in the order of their first members
RECURSIVE ClusterFrom(_, _, _)
ClusterFrom(ts, i, done) ==
    IF i > Len(ts) THEN <<>>
    ELSE IF i \in done THEN ClusterFrom(ts, i + 1, done)
    ELSE LET same == {j \in (i + 1)..Len(ts) : j \notin done /\ SameRequest(ts, i, j)}
             F[k \in i..Len(ts)] ==
                 IF k = i THEN <<i>>
                 ELSE IF k \in same THEN Append(F[k - 1], k) ELSE F[k - 1]
         IN  <<F[Len(ts)]>> \o ClusterFrom(ts, i + 1, done \cup {i} \cup same)

Cluster(ts) == ClusterFrom(ts, 1, {})

NeverClustered(cluster, offline) == FALSE

ClusteredOffline(cluster, offline) == Len(cluster) > 1

\* if len(cluster) > 1 && !r.options.OfflineHTTP
IsClustered(cluster, offline) == Len(cluster) > 1 /\ ~offline

\* the units appended for the clusters cs of the templates ts
RECURSIVE UnitsOf(_, _, _)
UnitsOf(ts, cs, offline) ==
    IF cs = <<>> THEN <<>>
    ELSE LET cluster == Head(cs)
         IN  (IF IsClustered(cluster, offline)
              THEN <<[kind |-> "cluster", members |-> cluster,
                      TotalRequests |-> Len(ts[cluster[1]].blocks)]>>
              ELSE [k \in 1..Len(cluster) |->
                      [kind |-> "template", members |-> <<cluster[k]>>,
                       TotalRequests |-> TotalRequests(ts[cluster[k]])]])
             \o UnitsOf(ts, Tail(cs), offline)

\* the workflows appended to finalTemplates
WorkflowUnits(n) ==
    [k \in 1..n |-> [kind |-> "workflow", members |-> <<>>, TotalRequests |-> 0]]

\* the sum of int64(t.TotalRequests) * r.inputCount over the units that are
\* not workflows
RECURSIVE Estimate(_, _)
Estimate(us, n) ==
    IF us = <<>> THEN 0
    ELSE (IF Head(us).kind = "workflow" THEN 0 ELSE Head(us).TotalRequests * n)
         + Estimate(Tail(us), n)

\* the number of templates of the clusters that were merged
RECURSIVE ClusterCount(_)
ClusterCount(us) ==
    IF us = <<>> THEN 0
    ELSE (IF Head(us).kind = "cluster" THEN Len(Head(us).members) ELSE 0)
         + ClusterCount(Tail(us))

NeverFatal(count) == FALSE

\* if templateCount == 0
IsFatal(count) == count = 0

\* the physical requests one Execute of the unit issues: the shared Executer
\* of a cluster issues the requests of the shared request once
UnitRequests(ts, u) ==
    IF u.kind = "workflow" THEN 0 ELSE TotalRequests(ts[u.members[1]])

\* the (unit, target) pair executed as the i-th one
PairAt(i, n) == <<((i - 1) \div n) + 1, ((i - 1) % n) + 1>>

\* every input of RunEnumeration within the bounds
InitPlan ==
    /\ \E n \in 0..MaxTemplates : \E ts \in [1..n -> PlainTemplates] :
         \E w \in 0..MaxWorkflows : \E off \in BOOLEAN : \E ic \in 0..MaxTargets :
            plan = [templates |-> ts, workflows |-> w, OfflineHTTP |-> off, inputCount |-> ic]
    /\ qpc = "build"
    /\ finalTemplates = <<>>
    /\ estimate = "none"
    /\ msgs = <<>> /\ progressInit = FALSE
    /\ xnext = 0 /\ wire = <<>> /\ xlast = "none"
    /\ OperatorsIdle /\ MergeIdle /\ ExecuterIdle /\ RunnerIdle /\ PopulateIdle
    /\ WorkflowIdle /\ ReportingIdle /\ SinkIdle /\ InvocationsIdle
    /\ FilterIdle /\ NetworkIdle

\* runner.go:294-347: the estimates, the clusters, the units, the template count
BuildUnits ==
    /\ qpc = "build"
    /\ LET ts == plan.templates
           plain == [k \in 1..Len(ts) |->
                       [kind |-> "template", members |-> <<k>>,
                        TotalRequests |-> TotalRequests(ts[k])]]
           final == UnitsOf(ts, Cluster(ts), plan.OfflineHTTP) \o WorkflowUnits(plan.workflows)
           unclustered == Estimate(plain, plan.inputCount)
           total == Estimate(final, plan.inputCount)
       IN  /\ finalTemplates' = final
           /\ estimate' = [unclusteredRequests |-> unclustered,
                           totalRequests |-> total,
                           templateCount |-> Len(ts) + plan.workflows,
                           clusterCount |-> ClusterCount(final)]
           /\ msgs' = IF total < unclustered THEN Append(msgs, "Reduced requests") ELSE msgs
           /\ wire' = [u \in 1..Len(final) |-> 0]
    /\ qpc' = "count"
    /\ UNCHANGED <<plan, progressInit, xnext, xlast>>

\* gologger.Fatal().Msgf("Error, no templates were found.\n"): the process exits
NoTemplatesFatal ==
    /\ qpc = "count"
    /\ IsFatal(estimate.templateCount)
    /\ msgs' = Append(msgs, "Error, no templates were found.")
    /\ qpc' = "fatal"
    /\ UNCHANGED <<plan, finalTemplates, estimate, progressInit, xnext, wire, xlast>>

\* "Using %s rules"; results, wgtemplates; r.progress.Init(...)
ProgressInit ==
    /\ qpc = "count"
    /\ ~IsFatal(estimate.templateCount)
    /\ msgs' = Append(msgs, "Using rules")
    /\ progressInit' = TRUE
    /\ qpc' = "fanout"
    /\ UNCHANGED <<plan, finalTemplates, estimate, xnext, wire, xlast>>

\* one Execute of a unit on a target; which members' Operators match the
\* response is an input, and one Result is emitted per matching member
ExecutePair ==
    /\ qpc = "fanout"
    /\ xnext < Len(finalTemplates) * plan.inputCount
    /\ LET p == PairAt(xnext + 1, plan.inputCount)
           u == finalTemplates[p[1]]
       IN  /\ \E matching \in SUBSET SeqToSet(u.members) :
                 xlast' = [unit |-> p[1], target |-> p[2],
                           requests |-> UnitRequests(plan.templates, u),
                           matching |-> matching, results |-> matching]
           /\ wire' = [wire EXCEPT ![p[1]] = @ + UnitRequests(plan.templates, u)]
    /\ xnext' = xnext + 1
    /\ UNCHANGED <<plan, qpc, finalTemplates, estimate, msgs, progressInit>>

\* wgtemplates.Wait() returns
FanOutJoined ==
    /\ qpc = "fanout"
    /\ xnext = Len(finalTemplates) * plan.inputCount
    /\ qpc' = "done"
    /\ UNCHANGED <<plan, finalTemplates, estimate, msgs, progressInit, xnext, wire, xlast>>

NextPlan ==
    \/ BuildUnits /\ UNCHANGED <<opVars, mergeVars, execVars, runVars, popVars, wfVars, repVars, sinkVars, invVars, filterVars, netVars>>
    \/ NoTemplatesFatal /\ UNCHANGED <<opVars, mergeVars, execVars, runVars, popVars, wfVars, repVars, sinkVars, invVars, filterVars, netVars>>
    \/ ProgressInit /\ UNCHANGED <<opVars, mergeVars, execVars, runVars, popVars, wfVars, repVars, sinkVars, invVars, filterVars, netVars>>
    \/ ExecutePair /\ UNCHANGED <<opVars, mergeVars, execVars, runVars, popVars, wfVars, repVars, sinkVars, invVars, filterVars, netVars>>
    \/ FanOutJoined /\ UNCHANGED <<opVars, mergeVars, execVars, runVars, popVars, wfVars, repVars, sinkVars, invVars, filterVars, netVars>>

SpecPlan == InitPlan /\ [][NextPlan]_vars

---------------------------------------------------------------------------
(* Part 6: one invocation of a workflow script on one target              *)
(* (part_000:82-139), next to the other pairs of the scan.  The script is *)
(* the sequence of the calls of run and run_with_values it makes.         *)

\* a script makes at most this many calls
MaxCalls == 2
\* at most this many other (unit, target) pairs are waiting
MaxPending == 2

\* the targets: the one the workflow was started on, and another one
BoundURL == "http://bound"
OtherURL == "http://other"

\* what a script can call: the callable, the template it names (one that
\* resolves and parses, one the catalog does not find, one that does not
\* parse) and the value of args["URL"] (absent: the key is not passed)
ScriptCalls ==
    [fn : {"run", "run_with_values"},
     template : {"ok", "missing", "broken"},
     url : {BoundURL, OtherURL, "absent"}]

\* the events a nested run hands to the callback of ExecuteWithResults: each
\* has an OperatorsResult, Matched or not
NestedEvents ==
    UNION {[1..n -> [Matched : BOOLEAN]] : n \in 0..MaxEvents}

\* processInternalTemplateWithResults: every event overwrites the key
\* "operatorresults" of the result map; the map has no such key without events
ResultMap(events) ==
    IF events = <<>> THEN [has |-> FALSE, Matched |-> FALSE]
    ELSE [has |-> TRUE, Matched |-> events[Len(events)].Matched]

\* vars["run"]: v.Matched if d["operatorresults"] is a Result, false otherwise
RunReturn(d) == IF d.has THEN d.Matched ELSE FALSE

\* the call the script is about to make
NextCall == wf.script[wstep + 1]

\* every script of at most MaxCalls calls, on the bound target
InitWorkflow ==
    /\ \E n \in 0..MaxCalls : \E sc \in [1..n -> ScriptCalls] :
          wf = [input |-> BoundURL, script |-> sc]
    /\ wpc = "script" /\ wstep = 0 /\ wruns = <<>>
    /\ pending \in 0..MaxPending /\ othersRun = 0
    /\ OperatorsIdle /\ MergeIdle /\ ExecuterIdle /\ RunnerIdle /\ PopulateIdle /\ PlanIdle
    /\ ReportingIdle /\ SinkIdle /\ InvocationsIdle /\ FilterIdle
    /\ NetworkIdle

\* if len(tpath) == 0 { gologger.Fatal()... }: the process exits
ResolveFails ==
    /\ wpc = "script" /\ wstep < Len(wf.script)
    /\ NextCall.template = "missing"
    /\ wpc' = "exited"
    /\ UNCHANGED <<wf, wstep, wruns, pending, othersRun>>

\* t, err := r.parseTemplateFile(tpath[0]); if err != nil { gologger.Fatal()... }
ParseFails ==
    /\ wpc = "script" /\ wstep < Len(wf.script)
    /\ NextCall.template = "broken"
    /\ wpc' = "exited"
    /\ UNCHANGED <<wf, wstep, wruns, pending, othersRun>>

\* args["URL"].(string) without the key: the type assertion panics; the
\* panic ends the process or comes back to the script as its error
ArgPanics ==
    /\ wpc = "script" /\ wstep < Len(wf.script)
    /\ NextCall.template = "ok"
    /\ NextCall.url = "absent"
    /\ wpc' \in {"panicked", "returned"}
    /\ UNCHANGED <<wf, wstep, wruns, pending, othersRun>>

\* res, err := processInternalTemplateWithResults(args["URL"].(string), t)
\* and the return of run or run_with_values
NestedRun ==
    /\ wpc = "script" /\ wstep < Len(wf.script)
    /\ NextCall.template = "ok"
    /\ NextCall.url # "absent"
    /\ \E events \in NestedEvents :
          wruns' = Append(wruns,
                     [fn |-> NextCall.fn, target |-> NextCall.url, events |-> events,
                      ret |-> IF NextCall.fn = "run"
                              THEN RunReturn(ResultMap(events))
                              ELSE ResultMap(events).has])
    /\ wstep' = wstep + 1
    /\ UNCHANGED <<wf, wpc, pending, othersRun>>

\* starlight.ExecScript returns
ScriptReturns ==
    /\ wpc = "script" /\ wstep = Len(wf.script)
    /\ wpc' = "returned"
    /\ UNCHANGED <<wf, wstep, wruns, pending, othersRun>>

\* another pair of the scan is executed by its own goroutine
OtherPairRuns ==
    /\ wpc \notin {"exited", "panicked"}
    /\ pending > 0
    /\ pending' = pending - 1
    /\ othersRun' = othersRun + 1
    /\ UNCHANGED <<wf, wpc, wstep, wruns>>

NextWorkflow ==
    \/ ResolveFails /\ UNCHANGED <<opVars, mergeVars, execVars, runVars, popVars, planVars, repVars, sinkVars, invVars, filterVars, netVars>>
    \/ ParseFails /\ UNCHANGED <<opVars, mergeVars, execVars, runVars, popVars, planVars, repVars, sinkVars, invVars, filterVars, netVars>>
    \/ ArgPanics /\ UNCHANGED <<opVars, mergeVars, execVars, runVars, popVars, planVars, repVars, sinkVars, invVars, filterVars, netVars>>
    \/ NestedRun /\ UNCHANGED <<opVars, mergeVars, execVars, runVars, popVars, planVars, repVars, sinkVars, invVars, filterVars, netVars>>
    \/ ScriptReturns /\ UNCHANGED <<opVars, mergeVars, execVars, runVars, popVars, planVars, repVars, sinkVars, invVars, filterVars, netVars>>
    \/ OtherPairRuns /\ UNCHANGED <<opVars, mergeVars, execVars, runVars, popVars, planVars, repVars, sinkVars, invVars, filterVars, netVars>>

SpecWorkflow == InitWorkflow /\ [][NextWorkflow]_vars

---------------------------------------------------------------------------
(* Part 7: one call of the reporting Client's CreateIssue                 *)
(* (reporting.go:161-183).  An error value is the sequence of the         *)
(* failures it aggregates, nil the empty one.  Whether a filter matches   *)
(* the event, what the dedupe storage answers and whether a tracker or    *)
(* exporter fails are inputs.                                             *)

\* a Client has at most this many trackers
MaxTrackers == 2
\* a Client has at most this many exporters
MaxExporters == 2
\* CreateIssue is called at most this many times
MaxIssues == 3

\* the events CreateIssue is called with; equal names are equal events
ReportEvents == {"e1", "e2"}

\* dedupe Storage.Index: true for an event the storage does not hold yet
Index(store, ev) == ev \notin store

ForwardsDuplicates(unique) == TRUE

\* if unique { ... }
Forwards(unique) == unique

KeepsFirstError(err, e) == IF err = <<>> THEN <<e>> ELSE err

\* multierr.Append(err, e)
MultierrAppend(err, e) == Append(err, e)

\* every Client within the bounds, CreateIssue about to be called
InitReporting ==
    /\ \E t \in 0..MaxTrackers : \E x \in 0..MaxExporters :
         \E al \in {"nil", "filter"} : \E dl \in {"nil", "filter"} :
            client = [trackers |-> t, exporters |-> x, AllowList |-> al, DenyList |-> dl]
    /\ cpc = "call" /\ cidx = 0 /\ cunique = "unknown"
    /\ cerr = <<>> /\ ccalls = <<>> /\ cret = "none"
    /\ cevent \in ReportEvents /\ ncalls = 1
    /\ dstore = {} /\ ilog = <<>> /\ sent = <<>>
    /\ OperatorsIdle /\ MergeIdle /\ ExecuterIdle /\ RunnerIdle /\ PopulateIdle /\ PlanIdle
    /\ WorkflowIdle /\ SinkIdle /\ InvocationsIdle /\ FilterIdle
    /\ NetworkIdle

\* the allow list does not match the event, or the deny list does: return nil
FilteredOut ==
    /\ cpc = "call"
    /\ \E allowMatch \in BOOLEAN : \E denyMatch \in BOOLEAN :
          \/ client.AllowList # "nil" /\ ~allowMatch
          \/ client.DenyList # "nil" /\ denyMatch
    /\ cret' = <<>>
    /\ cpc' = "done"
    /\ UNCHANGED <<client, cevent, ncalls, dstore, ilog, sent, cidx, cunique, cerr, ccalls>>

\* the event passes both lists: unique, err := c.dedupe.Index(event)
IndexEvent ==
    /\ cpc = "call"
    /\ \E allowMatch \in BOOLEAN : \E denyMatch \in BOOLEAN :
          /\ ~(client.AllowList # "nil" /\ ~allowMatch)
          /\ ~(client.DenyList # "nil" /\ denyMatch)
    /\ LET unique == Index(dstore, cevent)
       IN  /\ cunique' = IF unique THEN "unique" ELSE "duplicate"
           /\ cpc' = IF Forwards(unique) THEN "trackers" ELSE "return"
           /\ ilog' = Append(ilog, [event |-> cevent, unique |-> unique])
    /\ dstore' = dstore \cup {cevent}
    /\ \E indexErr \in BOOLEAN :
          cerr' = IF indexErr THEN << <<"dedupe", 0>> >> ELSE <<>>
    /\ UNCHANGED <<client, cevent, ncalls, sent, cidx, ccalls, cret>>

\* one iteration of the loop over c.trackers
CallTracker ==
    /\ cpc = "trackers"
    /\ cidx < client.trackers
    /\ \E ok \in BOOLEAN :
          /\ ccalls' = Append(ccalls, [kind |-> "tracker", i |-> cidx + 1, ok |-> ok])
          /\ cerr' = IF ok THEN cerr ELSE MultierrAppend(cerr, <<"tracker", cidx + 1>>)
    /\ sent' = Append(sent, [kind |-> "tracker", i |-> cidx + 1, event |-> cevent])
    /\ cidx' = cidx + 1
    /\ UNCHANGED <<client, cevent, ncalls, dstore, ilog, cpc, cunique, cret>>

\* the loop over c.trackers is over
TrackersDone ==
    /\ cpc = "trackers"
    /\ cidx = client.trackers
    /\ cpc' = "exporters" /\ cidx' = 0
    /\ UNCHANGED <<client, cevent, ncalls, dstore, ilog, sent, cunique, cerr, ccalls, cret>>

\* one iteration of the loop over c.exporters
CallExporter ==
    /\ cpc = "exporters"
    /\ cidx < client.exporters
    /\ \E ok \in BOOLEAN :
          /\ ccalls' = Append(ccalls, [kind |-> "exporter", i |-> cidx + 1, ok |-> ok])
          /\ cerr' = IF ok THEN cerr ELSE MultierrAppend(cerr, <<"exporter", cidx + 1>>)
    /\ sent' = Append(sent, [kind |-> "exporter", i |-> cidx + 1, event |-> cevent])
    /\ cidx' = cidx + 1
    /\ UNCHANGED <<client, cevent, ncalls, dstore, ilog, cpc, cunique, cret>>

\* the loop over c.exporters is over
ExportersDone ==
    /\ cpc = "exporters"
    /\ cidx = client.exporters
    /\ cpc' = "return" /\ cidx' = 0
    /\ UNCHANGED <<client, cevent, ncalls, dstore, ilog, sent, cunique, cerr, ccalls, cret>>

\* return err
CreateIssueReturns ==
    /\ cpc = "return"
    /\ cret' = cerr
    /\ cpc' = "done"
    /\ UNCHANGED <<client, cevent, ncalls, dstore, ilog, sent, cidx, cunique, cerr, ccalls>>

\* the next CreateIssue call, with any event
NextIssue ==
    /\ cpc = "done"
    /\ ncalls < MaxIssues
    /\ cevent' \in ReportEvents
    /\ ncalls' = ncalls + 1
    /\ cpc' = "call" /\ cidx' = 0 /\ cunique' = "unknown"
    /\ cerr' = <<>> /\ ccalls' = <<>> /\ cret' = "none"
    /\ UNCHANGED <<client, dstore, ilog, sent>>

NextReporting ==
    \/ FilteredOut /\ UNCHANGED <<opVars, mergeVars, execVars, runVars, popVars, planVars, wfVars, sinkVars, invVars, filterVars, netVars>>
    \/ IndexEvent /\ UNCHANGED <<opVars, mergeVars, execVars, runVars, popVars, planVars, wfVars, sinkVars, invVars, filterVars, netVars>>
    \/ CallTracker /\ UNCHANGED <<opVars, mergeVars, execVars, runVars, popVars, planVars, wfVars, sinkVars, invVars, filterVars, netVars>>
    \/ TrackersDone /\ UNCHANGED <<opVars, mergeVars, execVars, runVars, popVars, planVars, wfVars, sinkVars, invVars, filterVars, netVars>>
    \/ CallExporter /\ UNCHANGED <<opVars, mergeVars, execVars, runVars, popVars, planVars, wfVars, sinkVars, invVars, filterVars, netVars>>
    \/ ExportersDone /\ UNCHANGED <<opVars, mergeVars, execVars, runVars, popVars, planVars, wfVars, sinkVars, invVars, filterVars, netVars>>
    \/ CreateIssueReturns /\ UNCHANGED <<opVars, mergeVars, execVars, runVars, popVars, planVars, wfVars, sinkVars, invVars, filterVars, netVars>>
    \/ NextIssue /\ UNCHANGED <<opVars, mergeVars, execVars, runVars, popVars, planVars, wfVars, sinkVars, invVars, filterVars, netVars>>

SpecReporting == InitReporting /\ [][NextReporting]_vars

---------------------------------------------------------------------------
(* Part 8: the result loop of Executer.Execute, result by result           *)
(* src/v2/pkg/protocols/common/executer/executer.go:65-82                   *)

\* the events one Execute call sees
MaxReported == 2
\* the result events of one event
MaxResults == 2

\* the events a request hands to the callback: without Operators Result, or
\* with one and with 0..MaxResults result events
WrappedEvents ==
    {[OperatorsResult |-> "nil", Results |-> 0]}
        \cup {[OperatorsResult |-> "set", Results |-> n] : n \in 0..MaxResults}

ContinuesOnIssueError(failed) == IF failed THEN "result" ELSE "matched"

\* if err := CreateIssue(result); err != nil { gologger.Warning() }: the
\* iteration goes on with results = true, whatever CreateIssue returned
AfterCreateIssue(failed) == "matched"

\* var results bool; the events of the requests are handed over one by one
InitSink ==
    /\ \E ic \in {"nil", "client"} : sopts = [IssuesClient |-> ic]
    /\ \E n \in 1..MaxReported : \E es \in [1..n -> WrappedEvents] : sevents = es
    /\ spc = "event" /\ sev = 0 /\ sres = 0
    /\ sissues = <<>> /\ swritten = <<>> /\ scounted = <<>>
    /\ smatched = FALSE /\ sret = "none"
    /\ OperatorsIdle /\ MergeIdle /\ ExecuterIdle /\ RunnerIdle /\ PopulateIdle /\ PlanIdle
    /\ WorkflowIdle /\ ReportingIdle /\ InvocationsIdle /\ FilterIdle
    /\ NetworkIdle

\* the callback is called with the next event; without Operators Result it
\* returns at once
CallbackEntered ==
    /\ spc = "event"
    /\ sev < Len(sevents)
    /\ sev' = sev + 1
    /\ sres' = 0
    /\ spc' = IF sevents[sev + 1].OperatorsResult = "nil" THEN "event" ELSE "result"
    /\ UNCHANGED <<sopts, sevents, sissues, swritten, scounted, smatched, sret>>

\* for _, result := range event.Results
ResultLoop ==
    /\ spc = "result"
    /\ IF sres < sevents[sev].Results
       THEN /\ sres' = sres + 1
            /\ spc' = IF sopts.IssuesClient # "nil" THEN "issue" ELSE "matched"
       ELSE /\ spc' = "event"
            /\ UNCHANGED sres
    /\ UNCHANGED <<sopts, sevents, sev, sissues, swritten, scounted, smatched, sret>>

\* e.options.IssuesClient.CreateIssue(result) returns nil or an error
IssueCreated ==
    /\ spc = "issue"
    /\ \E failed \in BOOLEAN :
          /\ sissues' = Append(sissues, <<sev, sres, failed>>)
          /\ spc' = AfterCreateIssue(failed)
    /\ UNCHANGED <<sopts, sevents, sev, sres, swritten, scounted, smatched, sret>>

\* results = true
ResultsSet ==
    /\ spc = "matched"
    /\ smatched' = TRUE
    /\ spc' = "write"
    /\ UNCHANGED <<sopts, sevents, sev, sres, sissues, swritten, scounted, sret>>

\* _ = e.options.Output.Write(result): the error is dropped
OutputWrite ==
    /\ spc = "write"
    /\ swritten' = Append(swritten, <<sev, sres>>)
    /\ spc' = "count"
    /\ UNCHANGED <<sopts, sevents, sev, sres, sissues, scounted, smatched, sret>>

\* e.options.Progress.IncrementMatched()
IncrementMatched ==
    /\ spc = "count"
    /\ scounted' = Append(scounted, <<sev, sres>>)
    /\ spc' = "result"
    /\ UNCHANGED <<sopts, sevents, sev, sres, sissues, swritten, smatched, sret>>

\* return results, nil: after the last request
ExecuteReturnsResults ==
    /\ spc = "event"
    /\ sev = Len(sevents)
    /\ sret' = IF smatched THEN "true" ELSE "false"
    /\ spc' = "returned"
    /\ UNCHANGED <<sopts, sevents, sev, sres, sissues, swritten, scounted, smatched>>

NextSink ==
    \/ CallbackEntered /\ UNCHANGED <<opVars, mergeVars, execVars, runVars, popVars, planVars, wfVars, repVars, invVars, filterVars, netVars>>
    \/ ResultLoop /\ UNCHANGED <<opVars, mergeVars, execVars, runVars, popVars, planVars, wfVars, repVars, invVars, filterVars, netVars>>
    \/ IssueCreated /\ UNCHANGED <<opVars, mergeVars, execVars, runVars, popVars, planVars, wfVars, repVars, invVars, filterVars, netVars>>
    \/ ResultsSet /\ UNCHANGED <<opVars, mergeVars, execVars, runVars, popVars, planVars, wfVars, repVars, invVars, filterVars, netVars>>
    \/ OutputWrite /\ UNCHANGED <<opVars, mergeVars, execVars, runVars, popVars, planVars, wfVars, repVars, invVars, filterVars, netVars>>
    \/ IncrementMatched /\ UNCHANGED <<opVars, mergeVars, execVars, runVars, popVars, planVars, wfVars, repVars, invVars, filterVars, netVars>>
    \/ ExecuteReturnsResults /\ UNCHANGED <<opVars, mergeVars, execVars, runVars, popVars, planVars, wfVars, repVars, invVars, filterVars, netVars>>

SpecSink == InitSink /\ [][NextSink]_vars

---------------------------------------------------------------------------
(* Part 9: concurrent invocations of one Executer on different targets     *)
(* src/unnamed/part_000:19-30, executer.go:45-115                          *)

\* the targets of the goroutines that run template.Executer.Execute(URL)
\* at the same time
Invocations == {"host1", "host2"}

SharedChain(i) == "host1"

\* dynamicValues := make(map[string]interface{}); previous := make(...):
\* the maps are locals of the invocation, one pair for each call
ChainOf(i) == i

\* the events that carry something for the chain: internal fields, and an
\* Operators Result with dynamic values
ChainEvents ==
    {ev \in Events : ev.Results = 0 /\ ev.OperatorsResult.DynamicValues # EmptyMap}

\* the two maps as make() returns them
NewChain == [dynamicValues |-> EmptyMap, previous |-> EmptyMap]

InitInvocations ==
    /\ \E n \in 1..MaxRequests : irequests \in [1..n -> [ID : RequestIDs]]
    /\ ichain = [i \in Invocations |-> NewChain]
    /\ ipc = [i \in Invocations |-> "new"]
    /\ inext = [i \in Invocations |-> 0]
    /\ ievents = [i \in Invocations |-> <<>>]
    /\ icalls = [i \in Invocations |-> <<>>]
    /\ OperatorsIdle /\ MergeIdle /\ ExecuterIdle /\ RunnerIdle /\ PopulateIdle /\ PlanIdle
    /\ WorkflowIdle /\ ReportingIdle /\ SinkIdle /\ FilterIdle
    /\ NetworkIdle

\* go func(URL string) { ... template.Executer.Execute(URL) }: the call
\* makes its two maps
Invoke(i) ==
    /\ ipc[i] = "new"
    /\ ichain' = [ichain EXCEPT ![ChainOf(i)] = NewChain]
    /\ ipc' = [ipc EXCEPT ![i] = "loop"]
    /\ UNCHANGED <<irequests, inext, ievents, icalls>>

\* req.ExecuteWithResults(input, dynamicValues, previous, callback)
CallRequest(i) ==
    /\ ipc[i] = "loop"
    /\ inext[i] < Len(irequests)
    /\ inext' = [inext EXCEPT ![i] = @ + 1]
    /\ icalls' = [icalls EXCEPT ![i] =
                     Append(@, [dynamicValues |-> ichain[ChainOf(i)].dynamicValues,
                                previous |-> ichain[ChainOf(i)].previous,
                                after |-> Len(ievents[i])])]
    /\ ipc' = [ipc EXCEPT ![i] = "inreq"]
    /\ UNCHANGED <<irequests, ichain, ievents>>

\* the running request delivers an event: the callback stores its fields in
\* the previous map of the invocation
Deliver(i) ==
    /\ ipc[i] = "inreq"
    /\ Len(ievents[i]) < MaxEvents
    /\ \E ev \in ChainEvents :
          /\ ichain' = [ichain EXCEPT ![ChainOf(i)] =
                           [dynamicValues |-> HandDynamicValues(@.dynamicValues, ev),
                            previous |-> StorePrevious(@.previous, irequests[inext[i]].ID,
                                                       ev.InternalEvent)]]
          /\ ievents' = [ievents EXCEPT ![i] =
                            Append(@, [ID |-> irequests[inext[i]].ID, ev |-> ev])]
    /\ UNCHANGED <<irequests, ipc, inext, icalls>>

\* the request returns, with or without an error
RequestDone(i) ==
    /\ ipc[i] = "inreq"
    /\ ipc' = [ipc EXCEPT ![i] = "loop"]
    /\ UNCHANGED <<irequests, ichain, inext, ievents, icalls>>

\* return results, nil   /   return nil
InvocationReturns(i) ==
    /\ ipc[i] = "loop"
    /\ inext[i] = Len(irequests)
    /\ ipc' = [ipc EXCEPT ![i] = "done"]
    /\ UNCHANGED <<irequests, ichain, inext, ievents, icalls>>

NextInvocations ==
    \/ (\E i \in Invocations : Invoke(i)) /\ UNCHANGED <<opVars, mergeVars, execVars, runVars, popVars, planVars, wfVars, repVars, sinkVars, filterVars, netVars>>
    \/ (\E i \in Invocations : CallRequest(i)) /\ UNCHANGED <<opVars, mergeVars, execVars, runVars, popVars, planVars, wfVars, repVars, sinkVars, filterVars, netVars>>
    \/ (\E i \in Invocations : Deliver(i)) /\ UNCHANGED <<opVars, mergeVars, execVars, runVars, popVars, planVars, wfVars, repVars, sinkVars, filterVars, netVars>>
    \/ (\E i \in Invocations : RequestDone(i)) /\ UNCHANGED <<opVars, mergeVars, execVars, runVars, popVars, planVars, wfVars, repVars, sinkVars, filterVars, netVars>>
    \/ (\E i \in Invocations : InvocationReturns(i)) /\ UNCHANGED <<opVars, mergeVars, execVars, runVars, popVars, planVars, wfVars, repVars, sinkVars, filterVars, netVars>>

SpecInvocations == InitInvocations /\ [][NextInvocations]_vars

---------------------------------------------------------------------------
(* Part 10: the reporting Filter (reporting.go:38-75, 185-192).  A string  *)
(* is a sequence of characters; "A" is the upper case of "a".              *)

\* the strings of a filter's configuration and of an event's tags
FilterStrings ==
    {<<>>, <<"a">>, <<"A">>, <<"b">>, <<" ", "a">>, <<"a", ",">>,
     <<"a", ",", "b">>, <<"b", ",", " ", "a">>}

\* the severities an event can carry
EventSeverities == {<<>>, <<"a">>, <<"A">>, <<"b">>}

\* strings.Split(s, ","): the pieces between the commas; one empty piece
\* for the empty string
RECURSIVE Split(_)
Split(s) ==
    IF \A i \in DOMAIN s : s[i] # ","
    THEN <<s>>
    ELSE LET c == CHOOSE i \in DOMAIN s :
                      s[i] = "," /\ \A j \in 1..(i - 1) : s[j] # ","
         IN  <<SubSeq(s, 1, c - 1)>> \o Split(SubSeq(s, c + 1, Len(s)))

\* unicode case folding of one character
Fold(c) == IF c = "A" THEN "a" ELSE c

\* strings.EqualFold
EqualFold(s, t) ==
    /\ Len(s) = Len(t)
    /\ \A i \in DOMAIN s : Fold(s[i]) = Fold(t[i])

\* stringSliceContains
stringSliceContains(slice, item) ==
    \E i \in DOMAIN slice : EqualFold(slice[i], item)

\* for _, part := range parts { append(list, strings.TrimSpace(part)) }
AppendTrimmed(list, parts) ==
    list \o [i \in DOMAIN parts |-> TrimSpace(parts[i])]

\* Filter.Compile
CompileFilter(f) ==
    [f EXCEPT !.severity = AppendTrimmed(f.severity, Split(f.Severity)),
              !.tags = AppendTrimmed(f.tags, Split(f.Tags))]

\* Filter.GetMatch
GetMatch(f, info) ==
    IF Len(f.severity) > 0
    THEN stringSliceContains(f.severity, info.severity)
    ELSE LET tagParts == AppendTrimmed(<<>>, Split(info.tags))
         IN  \E i \in DOMAIN f.tags : stringSliceContains(tagParts, f.tags[i])

\* a Filter as the configuration is read into it, and an event
InitFilter ==
    /\ \E sv \in FilterStrings : \E tg \in FilterStrings :
          filter = [Severity |-> sv, Tags |-> tg, severity |-> <<>>, tags |-> <<>>]
    /\ \E sv \in EventSeverities : \E tg \in FilterStrings :
          fevent = [severity |-> sv, tags |-> tg]
    /\ fpc = "new" /\ fmatch = "none"
    /\ OperatorsIdle /\ MergeIdle /\ ExecuterIdle /\ RunnerIdle /\ PopulateIdle /\ PlanIdle
    /\ WorkflowIdle /\ ReportingIdle /\ SinkIdle /\ InvocationsIdle
    /\ NetworkIdle

\* f.Compile()
FilterCompile ==
    /\ fpc = "new"
    /\ filter' = CompileFilter(filter)
    /\ fpc' = "compiled"
    /\ UNCHANGED <<fevent, fmatch>>

\* c.options.AllowList.GetMatch(event) of CreateIssue
FilterGetMatch ==
    /\ fpc = "compiled"
    /\ fmatch' = GetMatch(filter, fevent)
    /\ fpc' = "matched"
    /\ UNCHANGED <<filter, fevent>>

NextFilter ==
    \/ FilterCompile /\ UNCHANGED <<opVars, mergeVars, execVars, runVars, popVars, planVars, wfVars, repVars, sinkVars, invVars, netVars>>
    \/ FilterGetMatch /\ UNCHANGED <<opVars, mergeVars, execVars, runVars, popVars, planVars, wfVars, repVars, sinkVars, invVars, netVars>>

SpecFilter == InitFilter /\ [][NextFilter]_vars

---------------------------------------------------------------------------
(* Part 11: Compile of the network Request (protocols.go:194-245).  A      *)
(* declared address is the string scheme + host + port.                    *)

\* a Request declares at most this many addresses
MaxAddresses == 3

\* the declared addresses: with or without the "tls://" prefix, without
\* port, with a port, and with one colon too many for net.SplitHostPort
DeclaredAddresses ==
    [scheme : {"", "tls://"}, host : {"h1", "h2"}, port : {"", ":80", ":80:80"}]

\* strings.HasPrefix(address, "tls://")
HasTLSPrefix(a) == a.scheme = "tls://"

\* strings.TrimPrefix(address, "tls://")
TrimTLSPrefix(a) == [a EXCEPT !.scheme = ""]

\* strings.Contains(address, ":")
ContainsColon(a) == a.port # ""

\* net.SplitHostPort fails on an address with more than one colon
SplitHostPortFails(a) == a.port = ":80:80"

\* if strings.HasPrefix(address, "tls://") { shouldUseTLS = true }: the
\* variable is declared before the loop and never set back
UseTLS(flag, a) == flag \/ HasTLSPrefix(a)

\* the addressKV appended for an address
AddressKV(a, tls) ==
    IF ContainsColon(a)
    THEN [ip |-> a.host, port |-> "80", tls |-> tls]
    ELSE [ip |-> a.host, port |-> "", tls |-> tls]

\* var shouldUseTLS bool; every list of at most MaxAddresses addresses
InitNetwork ==
    /\ \E n \in 0..MaxAddresses : \E as \in [1..n -> DeclaredAddresses] :
          nreq = [Address |-> as, addresses |-> <<>>]
    /\ npc = "loop" /\ nidx = 0
    /\ shouldUseTLS = FALSE
    /\ OperatorsIdle /\ MergeIdle /\ ExecuterIdle /\ RunnerIdle /\ PopulateIdle /\ PlanIdle
    /\ WorkflowIdle /\ ReportingIdle /\ SinkIdle /\ InvocationsIdle /\ FilterIdle

\* one round of for _, address := range r.Address
CompileAddress ==
    /\ npc = "loop"
    /\ nidx < Len(nreq.Address)
    /\ LET declared == nreq.Address[nidx + 1]
           tls == UseTLS(shouldUseTLS, declared)
           address == IF HasTLSPrefix(declared) THEN TrimTLSPrefix(declared) ELSE declared
       IN  /\ shouldUseTLS' = tls
           /\ IF ContainsColon(address) /\ SplitHostPortFails(address)
              THEN /\ npc' = "failed"
                   /\ UNCHANGED nreq
              ELSE /\ nreq' = [nreq EXCEPT !.addresses = Append(@, AddressKV(address, tls))]
                   /\ UNCHANGED npc
    /\ nidx' = nidx + 1

\* the loop is over
AddressesDone ==
    /\ npc = "loop"
    /\ nidx = Len(nreq.Address)
    /\ npc' = "rest"
    /\ UNCHANGED <<nreq, nidx, shouldUseTLS>>

\* the rest of Compile: the client of the pool and the operators; either
\* can fail
CompileReturns ==
    /\ npc = "rest"
    /\ npc' \in {"compiled", "failed"}
    /\ UNCHANGED <<nreq, nidx, shouldUseTLS>>

NextNetwork ==
    \/ CompileAddress /\ UNCHANGED <<opVars, mergeVars, execVars, runVars, popVars, planVars, wfVars, repVars, sinkVars, invVars, filterVars>>
    \/ AddressesDone /\ UNCHANGED <<opVars, mergeVars, execVars, runVars, popVars, planVars, wfVars, repVars, sinkVars, invVars, filterVars>>
    \/ CompileReturns /\ UNCHANGED <<opVars, mergeVars, execVars, runVars, popVars, planVars, wfVars, repVars, sinkVars, invVars, filterVars>>

SpecNetwork == InitNetwork /\ [][NextNetwork]_vars

---------------------------------------------------------------------------
(* Vocabulary of the properties: what the inputs of the Execute call say *)

executed == pc = "executed"
reported == ~ret.isNil /\ ret.report
notReported == ret.isNil /\ ~ret.report

\* the values the non-internal extractors produced, in production order
RECURSIVE OutputsOf(_, _, _)
OutputsOf(es, prod, i) ==
    IF i > Len(es) THEN <<>>
    ELSE (IF es[i].Internal THEN <<>> ELSE prod[i]) \o OutputsOf(es, prod, i + 1)

\* some internal extractor produced a value: DynamicValues is non-empty
HasDynamic(o) ==
    \E i \in 1..Len(o.Extractors) : o.Extractors[i].Internal /\ o.Extractors[i].out # {}

\* some non-internal extractor produced a value: OutputExtracts is non-empty
HasOutput(o) ==
    \E i \in 1..Len(o.Extractors) : ~o.Extractors[i].Internal /\ o.Extractors[i].out # {}

AnyProduced(o) == \E i \in 1..Len(o.Extractors) : o.Extractors[i].out # {}

AnyHit(o) == \E k \in 1..Len(o.Matchers) : o.Matchers[k].hit
AnyMiss(o) == \E k \in 1..Len(o.Matchers) : ~o.Matchers[k].hit
FirstMiss(o) ==
    CHOOSE k \in 1..Len(o.Matchers) :
        ~o.Matchers[k].hit /\ \A j \in 1..(k - 1) : o.Matchers[j].hit

\* a matcher failed while the condition is AND
AndFailed(o) == o.matchersCondition = ANDCondition /\ AnyMiss(o)

---------------------------------------------------------------------------
(* C1 *)

\* C1: every Result that Execute returns has Extracted = (len(OutputExtracts) > 0),
\* on every return path.  Stated as claimed; the return at line 135 breaks it.
C1_ExtractedIffOutput ==
    (executed /\ ~ret.isNil) =>
        (ret.result.Extracted = (Len(ret.result.OutputExtracts) > 0))

---------------------------------------------------------------------------
(* C2 *)

\* C2: under AND, when matcher k is the first to fail, Execute calls match() k
\* times and no more, and returns (result, true) if DynamicValues is non-empty
\* and (nil, false) if it is empty, whatever OutputExtracts holds.
C2_AndShortCircuit ==
    (executed /\ AndFailed(ops)) =>
        /\ ret.calls = FirstMiss(ops)
        /\ HasDynamic(ops) =>
              /\ reported
              /\ DOMAIN ret.result.DynamicValues # {}
              /\ ret.result.OutputExtracts = OutputsOf(ops.Extractors, produced, 1)
        /\ ~HasDynamic(ops) => notReported

\* an AND chain whose first matcher fails with a dynamic value collected: the
\* second matcher, which would match, is never evaluated and the Result is returned
C2_Witness ==
    /\ executed /\ AndFailed(ops)
    /\ Len(ops.Matchers) = 2 /\ FirstMiss(ops) = 1 /\ ops.Matchers[2].hit
    /\ HasDynamic(ops)
    /\ ret.calls = 1
    /\ reported

\* the other outcome: output extracts were collected, no dynamic value, nil returned
C2_WitnessNil ==
    /\ executed /\ AndFailed(ops)
    /\ HasOutput(ops) /\ ~HasDynamic(ops)
    /\ notReported

---------------------------------------------------------------------------
(* C3 *)

AndSatisfied(o) ==
    o.matchersCondition = ANDCondition /\ Len(o.Matchers) > 0 /\ ~AnyMiss(o)
OrMatched(o) == o.matchersCondition = ORCondition /\ AnyHit(o)
NamedOrMatch(o) ==
    /\ o.matchersCondition = ORCondition
    /\ \E k \in 1..Len(o.Matchers) : o.Matchers[k].hit /\ o.Matchers[k].Name # ""

\* C3 as claimed: Execute reports exactly when AND is fully satisfied, or OR
\* matched, or there are no matchers and extractors produced output, or one of
\* Matches/Extracts/OutputExtracts is non-empty (also with matchers configured).
\* Taken for the two valid conditions only.
C3_ReportAsClaimed ==
    (executed /\ ops.matchersCondition \in {ANDCondition, ORCondition}) =>
        /\ reported \/ notReported
        /\ reported <=>
              \/ AndSatisfied(ops)
              \/ OrMatched(ops)
              \/ Len(ops.Matchers) = 0 /\ AnyProduced(ops)
              \/ NamedOrMatch(ops) \/ HasOutput(ops)

\* C3 amended: Execute reports exactly when DynamicValues is non-empty, or a
\* matcher matched and none failed under AND, or there are no matchers and a
\* non-internal extractor produced output; in every other case (nil, false).
C3_ReportDecision ==
    executed =>
        /\ reported \/ notReported
        /\ reported <=>
              \/ HasDynamic(ops)
              \/ ~AndFailed(ops) /\ AnyHit(ops)
              \/ Len(ops.Matchers) = 0 /\ HasOutput(ops)

\* matchers are configured under OR, none matched, output was extracted and
\* nothing is chained: Execute returns (nil, false)
C3_Witness ==
    /\ executed /\ ops.matchersCondition = ORCondition
    /\ Len(ops.Matchers) > 0 /\ ~AnyHit(ops)
    /\ HasOutput(ops) /\ ~HasDynamic(ops)
    /\ notReported

---------------------------------------------------------------------------
(* C4 *)

\* the same Operators with its matchers listed in the order perm
PermuteMatchers(o, perm) ==
    [o EXCEPT !.Matchers = [k \in 1..Len(o.Matchers) |-> o.Matchers[perm[k]]]]

\* C4: under OR, Execute on any permutation of the same matchers over the same
\* data gives the same Matched flag, the same Matches set and the same
\* shouldReport decision as the call that was made.
C4_OrCommutes ==
    (executed /\ ops.matchersCondition = ORCondition) =>
        \A perm \in Orders(1..Len(ops.Matchers)) :
            LET other == ExecuteOp(PermuteMatchers(ops, perm), produced)
            IN /\ other.report = ret.report
               /\ other.isNil = ret.isNil
               /\ other.result.Matched = ret.result.Matched
               /\ other.result.Matches = ret.result.Matches

\* an OR list of three matchers, one named that fired, one unnamed that fired,
\* one that failed: reported with the named one in Matches
C4_Witness ==
    /\ executed /\ ops.matchersCondition = ORCondition
    /\ Len(ops.Matchers) = 3
    /\ ~ops.Matchers[1].hit
    /\ ops.Matchers[2].hit /\ ops.Matchers[2].Name = ""
    /\ ops.Matchers[3].hit /\ ops.Matchers[3].Name = "p"
    /\ reported /\ ret.result.Matched /\ ret.result.Matches = {"p"}

---------------------------------------------------------------------------
(* C5 *)

\* the internal extractors named name that produced a value
InternalProducers(o, name) ==
    {i \in 1..Len(o.Extractors) :
        /\ o.Extractors[i].Internal
        /\ o.Extractors[i].Name = name
        /\ o.Extractors[i].out # {}}

Min(S) == CHOOSE x \in S : \A y \in S : x <= y

\* C5: DynamicValues holds, under each name an internal extractor produced a
\* value for, the first value produced for that name and nothing else; values
\* of internal extractors reach neither OutputExtracts nor Extracts.
C5_InternalFirstValue ==
    executed =>
        /\ \A name \in ExtractorNames :
              IF InternalProducers(ops, name) = {}
              THEN name \notin DOMAIN ret.result.DynamicValues
              ELSE /\ ~ret.isNil
                   /\ name \in DOMAIN ret.result.DynamicValues
                   /\ ret.result.DynamicValues[name] =
                         produced[Min(InternalProducers(ops, name))][1]
        /\ ~ret.isNil =>
              /\ ret.result.OutputExtracts = OutputsOf(ops.Extractors, produced, 1)
              /\ \A k \in DOMAIN ret.result.Extracts :
                    \E i \in 1..Len(ops.Extractors) :
                        /\ ~ops.Extractors[i].Internal
                        /\ ops.Extractors[i].Name = k
                        /\ ret.result.Extracts[k] = produced[i]

\* two internal extractors share the name "n"; the first produced "b" before "a",
\* the second produced "a": DynamicValues["n"] is "b", nothing is output
C5_Witness ==
    /\ executed /\ Len(ops.Extractors) = 2
    /\ ops.Extractors[1].Internal /\ ops.Extractors[1].Name = "n"
    /\ ops.Extractors[2].Internal /\ ops.Extractors[2].Name = "n"
    /\ produced = << <<"b", "a">>, <<"a">> >>
    /\ ~ret.isNil
    /\ ret.result.DynamicValues["n"] = "b"
    /\ ret.result.OutputExtracts = <<>>

---------------------------------------------------------------------------
(* C6 *)

\* C6 as claimed: OutputExtracts holds every value of every non-internal
\* extractor, and Extracts[name] holds every value each named one produced,
\* also when two extractors share a name.  Lines 124-126 assign, so a later
\* extractor of the same name replaces what the earlier one stored.
C6_ExtractsHoldEveryValue ==
    (executed /\ ~ret.isNil) =>
        /\ ret.result.OutputExtracts = OutputsOf(ops.Extractors, produced, 1)
        /\ \A i \in 1..Len(ops.Extractors) :
              (~ops.Extractors[i].Internal /\ ops.Extractors[i].Name # ""
                  /\ ops.Extractors[i].out # {}) =>
                 /\ ops.Extractors[i].Name \in DOMAIN ret.result.Extracts
                 /\ ops.Extractors[i].out \subseteq
                       SeqToSet(ret.result.Extracts[ops.Extractors[i].Name])

---------------------------------------------------------------------------
(* C7 *)

\* C7: with no matchers and a value produced by a non-internal extractor, Execute
\* returns (result, true) with Extracted = true, Matched = false and
\* OutputExtracts equal to the produced values.
C7_ExtractorOnlyReports ==
    (executed /\ Len(ops.Matchers) = 0 /\ HasOutput(ops)) =>
        /\ reported
        /\ ret.result.Extracted
        /\ ~ret.result.Matched
        /\ ret.result.OutputExtracts = OutputsOf(ops.Extractors, produced, 1)

\* no matchers, one unnamed extractor that produced one value, nothing chained
C7_Witness ==
    /\ executed /\ Len(ops.Matchers) = 0 /\ Len(ops.Extractors) = 1
    /\ ~ops.Extractors[1].Internal /\ ops.Extractors[1].Name = ""
    /\ produced = << <<"a">> >>
    /\ reported /\ ret.result.Extracted /\ ~ret.result.Matched
    /\ ret.result.OutputExtracts = <<"a">>

---------------------------------------------------------------------------
(* C8 *)

\* x.Merge(y) then x.Merge(z), as one outcome
MergeLeftFirst(x, y, z) ==
    LET xy == MergeOp(x, y)
    IN IF xy.panic THEN xy ELSE MergeOp(xy.r, z)

\* y.Merge(z) then x.Merge(y), as one outcome
MergeRightFirst(x, y, z) ==
    LET yz == MergeOp(y, z)
    IN IF yz.panic THEN [panic |-> TRUE, r |-> x] ELSE MergeOp(x, yz.r)

\* a Result that holds nothing
IsEmptyResult(r) ==
    /\ ~r.Matched /\ ~r.Extracted /\ r.Matches = {}
    /\ DOMAIN r.Extracts = {} /\ r.OutputExtracts = <<>>
    /\ DOMAIN r.DynamicValues = {} /\ DOMAIN r.PayloadValues.kv = {}

\* C8 as claimed: merging a with b and then with c gives field for field what
\* merging a with the merge of b and c gives, and merging with an empty Result
\* changes nothing.  The second grouping can panic where the first completes.
C8_MergeAssociative ==
    /\ mstep = "xy_z" =>
          LET other == MergeRightFirst(ma, mb, mc)
          IN ~other.panic /\ other.r = mx
    /\ mstep = "x_yz" =>
          LET other == MergeLeftFirst(ma, mb, mc)
          IN ~other.panic /\ other.r = mx
    /\ (mstep = "xy" /\ IsEmptyResult(mb)) => mx = ma

\* what does hold: when neither grouping panics the two agree field for field,
\* and merging with an empty Result never panics and changes nothing
MergeAssociativeUnlessPanic ==
    /\ mstep \in {"xy_z", "x_yz"} =>
          LET l == MergeLeftFirst(ma, mb, mc)
              r == MergeRightFirst(ma, mb, mc)
          IN (~l.panic /\ ~r.panic) => (l.r = r.r /\ l.r = mx)
    /\ (mstep = "start" /\ IsEmptyResult(mb)) =>
          LET out == MergeOp(ma, mb) IN ~out.panic /\ out.r = ma

---------------------------------------------------------------------------
(* C9 *)

\* later wins per key
LaterWins(merged, mine, theirs) ==
    /\ DOMAIN merged = (DOMAIN mine) \cup (DOMAIN theirs)
    /\ \A k \in DOMAIN merged :
          merged[k] = IF k \in DOMAIN theirs THEN theirs[k] ELSE mine[k]

\* the parts of C9 that do not concern a shared Extracts key
MergeFieldwise ==
    /\ mx.Matched = (ma.Matched \/ mb.Matched)
    /\ mx.Extracted = (ma.Extracted \/ mb.Extracted)
    /\ mx.Matches = ma.Matches \cup mb.Matches
    /\ mx.OutputExtracts = ma.OutputExtracts \o mb.OutputExtracts
    /\ LaterWins(mx.DynamicValues, ma.DynamicValues, mb.DynamicValues)
    /\ LaterWins(mx.PayloadValues.kv, ma.PayloadValues.kv, mb.PayloadValues.kv)
    /\ DOMAIN mx.Extracts = (DOMAIN ma.Extracts) \cup (DOMAIN mb.Extracts)
    /\ \A k \in (DOMAIN ma.Extracts) \ (DOMAIN mb.Extracts) :
          mx.Extracts[k] = ma.Extracts[k]
    /\ \A k \in (DOMAIN mb.Extracts) \ (DOMAIN ma.Extracts) :
          mx.Extracts[k] = mb.Extracts[k]

\* C9 as claimed: Merge ORs the flags, unions Matches, concatenates
\* OutputExtracts, lets the later Result win per key in DynamicValues and
\* PayloadValues, and for an Extracts key of both Results appends the other
\* Result's list to the receiver's.  Line 81 assigns instead of appending.
C9_MergeAppendsExtracts ==
    mstep = "xy" =>
        /\ MergeFieldwise
        /\ \A k \in (DOMAIN ma.Extracts) \cap (DOMAIN mb.Extracts) :
              mx.Extracts[k] = ma.Extracts[k] \o mb.Extracts[k]

\* what does hold: the same, with the other Result's list replacing the
\* receiver's for a shared Extracts key
MergeReplacesExtracts ==
    mstep = "xy" =>
        /\ MergeFieldwise
        /\ \A k \in (DOMAIN ma.Extracts) \cap (DOMAIN mb.Extracts) :
              mx.Extracts[k] = mb.Extracts[k]

---------------------------------------------------------------------------
(* C10 *)

\* C10 as claimed: once Compile has returned nil the resolved condition is AND
\* or OR, and it is OR when MatchersCondition is empty.  A string that names
\* neither condition is looked up, not validated, and leaves the zero value.
C10_ConditionResolved ==
    (pc \in {"compiled", "executed"}) =>
        /\ ops.matchersCondition \in {ANDCondition, ORCondition}
        /\ ops.MatchersCondition = "" => ops.matchersCondition = ORCondition

---------------------------------------------------------------------------
(* Vocabulary of the Executer properties *)

edone == epc = "done"

\* the event carries the Result of an operators match
HasOperatorsResult(ev) == ~ev.OperatorsResult.isNil

\* the event makes Execute write at least one ResultEvent
HasResultEvent(ev) == HasOperatorsResult(ev) /\ ev.Results > 0

\* the position in elog of the last event before request k that wrote key
LastWriter(k, key) ==
    LET W == {i \in 1..Len(elog) :
                /\ elog[i].req < k
                /\ requests[elog[i].req].ID # ""
                /\ \E f \in DOMAIN elog[i].ev.InternalEvent :
                      key = PreviousKey(requests[elog[i].req].ID, f)}
    IN IF W = {} THEN 0 ELSE CHOOSE i \in W : \A j \in W : j <= i

RECURSIVE SumEmitted(_)
SumEmitted(n) ==
    IF n = 0 THEN 0
    ELSE SumEmitted(n - 1) +
         (IF HasOperatorsResult(elog[n].ev) THEN EmittedBy(entry, elog[n].ev) ELSE 0)

---------------------------------------------------------------------------
(* C11 *)

\* C11: when a request of the chain is started, its previous argument holds,
\* under "<ID>_<field>", every field of every event the requests before it
\* delivered, and its dynamicValues argument holds every dynamic value of
\* the operators Results those events carried.
C11_LaterRequestObservesAll ==
    \A k \in 1..Len(calls) : \A i \in 1..Len(elog) :
        elog[i].req < k =>
            /\ \A f \in DOMAIN elog[i].ev.InternalEvent :
                  PreviousKey(requests[elog[i].req].ID, f) \in DOMAIN calls[k].prev
            /\ \A d \in DOMAIN elog[i].ev.OperatorsResult.DynamicValues :
                  d \in DOMAIN calls[k].dv

\* what does hold: the fields of the earlier requests that have an ID reach
\* the later request, each key with the value of the last event that wrote it
PreviousObservedWhenNamed ==
    \A k \in 1..Len(calls) : \A i \in 1..Len(elog) :
        (elog[i].req < k /\ requests[elog[i].req].ID # "") =>
            \A f \in DOMAIN elog[i].ev.InternalEvent :
                LET key == PreviousKey(requests[elog[i].req].ID, f)
                    w == LastWriter(k, key)
                IN /\ key \in DOMAIN calls[k].prev
                   /\ \E g \in DOMAIN elog[w].ev.InternalEvent :
                         /\ key = PreviousKey(requests[elog[w].req].ID, g)
                         /\ calls[k].prev[key] = elog[w].ev.InternalEvent[g]

---------------------------------------------------------------------------
(* C12 *)

\* C12: the requests are called in declaration order, one at a time: when
\* request k+1 is called, the call of request k has returned, and the events
\* are delivered in the order of the requests.
C12_SequentialInOrder ==
    /\ Len(calls) = reqIdx
    /\ \A k \in 1..Len(calls) :
          /\ calls[k].req = k
          /\ (k < Len(calls) => calls[k].err # "running")
          /\ (calls[k].err = "running" => epc = "inreq")
    /\ \A i \in 1..Len(elog) : \A j \in 1..Len(elog) :
          i < j => elog[i].req <= elog[j].req
    /\ (edone => Len(calls) = Len(requests))

\* the second request is running after the first delivered an event and returned
C12_Witness ==
    /\ epc = "inreq" /\ reqIdx = 2
    /\ calls[1].err = "nil"
    /\ Len(elog) = 2 /\ elog[1].req = 1 /\ elog[2].req = 2

---------------------------------------------------------------------------
(* C13 *)

\* C13: whichever requests return an error, every request of the chain has
\* been called, in order, when the entry point returns; what the events of
\* all the requests made it write or hand on is kept, Execute's matched is
\* true as soon as one of them carried a ResultEvent, and the error
\* returned is nil.
C13_ErrorsDoNotAbort ==
    edone =>
        /\ Len(calls) = Len(requests)
        /\ \A k \in 1..Len(calls) : calls[k].req = k /\ calls[k].err \in {"nil", "error"}
        /\ eret.err = "nil"
        /\ emitted = SumEmitted(Len(elog))
        /\ (entry = "Execute" =>
              ((\E i \in 1..Len(elog) : HasResultEvent(elog[i].ev)) => eret.matched = TRUE))

\* the first request matched and returned an error, the second ran and matched too
C13_Witness ==
    /\ edone /\ entry = "Execute"
    /\ Len(calls) = 2
    /\ calls[1].err = "error" /\ calls[2].err = "nil"
    /\ Len(elog) = 2
    /\ elog[1].req = 1 /\ HasResultEvent(elog[1].ev)
    /\ elog[2].req = 2 /\ HasResultEvent(elog[2].ev)
    /\ eret = [matched |-> TRUE, err |-> "nil"]
    /\ emitted = 2

---------------------------------------------------------------------------
(* C14 *)

\* C14 as claimed: Execute returns matched = true exactly when some request
\* delivered an event whose OperatorsResult is not nil, however many
\* ResultEvents the event carries.
C14_MatchedIffOperatorsResult ==
    (edone /\ entry = "Execute") =>
        (eret.matched <=> \E i \in 1..Len(elog) : HasOperatorsResult(elog[i].ev))

\* C14: Execute returns matched = true exactly when some request delivered
\* an event whose OperatorsResult is not nil and that carries at least one
\* ResultEvent.
C14_MatchedIffResultEvent ==
    (edone /\ entry = "Execute") =>
        (eret.matched <=> \E i \in 1..Len(elog) : HasResultEvent(elog[i].ev))

\* an event with an OperatorsResult and no ResultEvent, and Execute returned false
C14_Witness ==
    /\ edone /\ entry = "Execute"
    /\ \E i \in 1..Len(elog) : HasOperatorsResult(elog[i].ev) /\ elog[i].ev.Results = 0
    /\ eret.matched = FALSE

---------------------------------------------------------------------------
(* C15 *)

\* C15: previous is additive only: no step removes a key of previous or
\* changes the value of a key that is already there.
C15_PreviousAdditiveOnly ==
    [][\A key \in DOMAIN previous :
          key \in DOMAIN previous' /\ previous'[key] = previous[key]]_vars

\* what does hold: no key is ever removed
PreviousKeysNeverRemoved ==
    [][\A key \in DOMAIN previous : key \in DOMAIN previous']_vars

---------------------------------------------------------------------------
(* C16 *)

\* C16: a step changes previous only when a request with a non-empty ID
\* delivers an event, and then only at the keys "<ID>_<field>" of that
\* event's fields, which take the event's values; an event of a request
\* with an empty ID leaves previous as it was.
C16_PreviousFrame ==
    [][/\ \A key \in DOMAIN previous' :
             (key \notin DOMAIN previous \/ previous'[key] # previous[key]) =>
                 /\ Len(elog') = Len(elog) + 1
                 /\ requests[reqIdx].ID # ""
                 /\ \E f \in DOMAIN elog'[Len(elog')].ev.InternalEvent :
                       /\ key = PreviousKey(requests[reqIdx].ID, f)
                       /\ previous'[key] = elog'[Len(elog')].ev.InternalEvent[f]
       /\ DOMAIN previous \subseteq DOMAIN previous'
       /\ (Len(elog') = Len(elog) + 1 /\ requests[reqIdx].ID = "") => previous' = previous
      ]_vars

\* a request with an ID stored its field, then a request without ID
\* delivered an event: previous holds the first one's key only
C16_Witness ==
    /\ Len(elog) = 2
    /\ requests[elog[1].req].ID = "req1"
    /\ requests[elog[2].req].ID = ""
    /\ DOMAIN previous = {"req1_token"}
    /\ previous["req1_token"] = elog[1].ev.InternalEvent["token"]

---------------------------------------------------------------------------
(* Vocabulary of the fan-out properties *)

Pairs == Unit \X targets

\* the join at runner.go:377 has returned
joined == rpc \in {"joined", "closed", "stopped", "reported", "found", "nothing", "exit"}

\* RunEnumeration has reached its summary
atSummary == rpc \in {"reported", "found", "nothing"}

\* the executions of the pair that have returned
Executions(p) == tret[p[1]][p[2]]

\* some execution of some pair returned true
AnyExecutionMatched ==
    \E p \in Pairs : \E i \in 1..Len(Executions(p)) : Executions(p)[i]

\* interactsh.Close() returned true
CloseMatched == \E i \in 1..Len(gcas) : gcas[i].by = "interactsh"

\* the pairs whose Execute / RunWorkflow call is running
Executing == {p \in Pairs : tstate[p[1]][p[2]] \in {"exec", "hung"}}

---------------------------------------------------------------------------
(* C17 *)

\* C17: the global flag starts false and no step takes it from true back
\* to false, whatever a later compare-and-set is handed.
C17_FlagMonotonic ==
    /\ gflag = FALSE
    /\ [][gflag = TRUE => gflag' = TRUE]_vars

\* a unit that found nothing did its compare-and-set after one that matched
C17_Witness ==
    /\ gflag = TRUE
    /\ \E i \in 1..Len(gcas) : \E j \in 1..Len(gcas) :
          i < j /\ gcas[i].v = TRUE /\ gcas[j].v = FALSE

---------------------------------------------------------------------------
(* C18 *)

\* C18: at the summary the global flag is true exactly when the execution
\* of some (unit, target) pair returned true or interactsh.Close() returned
\* true, and the summary reports results exactly in that case.
C18_FlagIffSomeMatch ==
    atSummary =>
        /\ gflag <=> (AnyExecutionMatched \/ CloseMatched)
        /\ rpc = "found" => gflag
        /\ rpc = "nothing" => ~gflag

\* one single execution out of four matched, no interactsh client, and the
\* summary reports results
C18_Witness ==
    /\ rpc = "found"
    /\ interactsh = "nil"
    /\ Len(units) = 2 /\ targets = 1..2
    /\ Cardinality({p \in Pairs : Executions(p) = <<TRUE>>}) = 1
    /\ Cardinality({p \in Pairs : Executions(p) = <<FALSE>>}) = 3

---------------------------------------------------------------------------
(* C19 *)

\* C19: at most TemplateThreads unit goroutines are in flight, each unit
\* has at most BulkSize target goroutines in flight, and at most
\* TemplateThreads x BulkSize executions run at the same time.
C19_BoundedFanOut ==
    /\ Cardinality(UnitsInFlight) <= limits.TemplateThreads
    /\ \A u \in Unit : Cardinality(TargetsInFlight(u)) <= limits.BulkSize
    /\ Cardinality(Executing) <= limits.TemplateThreads * limits.BulkSize

\* both limits are reached: the second unit and the second target wait
C19_Witness ==
    /\ limits = [TemplateThreads |-> 1, BulkSize |-> 1]
    /\ Len(units) = 2 /\ targets = 1..2
    /\ rnext = 1 /\ ustate[1] = "scan" /\ ustate[2] = "new"
    /\ Cardinality(TargetsInFlight(1)) = 1
    /\ \E t \in targets : tstate[1][t] = "new"

---------------------------------------------------------------------------
(* C20 *)

\* C20: no (unit, target) pair is ever executed twice, and once the join
\* of the unit goroutines has returned every pair has been executed once
\* and its goroutine is done.
C20_EveryPairOnce ==
    /\ \A p \in Pairs : Len(Executions(p)) <= 1
    /\ joined => \A p \in Pairs : Len(Executions(p)) = 1 /\ tstate[p[1]][p[2]] = "done"

\* the join returns after two units ran two targets each, all four at once
C20_Witness ==
    /\ rpc = "joined"
    /\ Len(units) = 2 /\ targets = 1..2
    /\ limits = [TemplateThreads |-> 2, BulkSize |-> 2]
    /\ \A p \in Pairs : Len(Executions(p)) = 1

----------------------------------------------------------------------------
(* C21, C23 *)

\* the shutdown steps of RunEnumeration and of the deferred Close, in the
\* order of the source
ShutdownOrder ==
    <<"interactsh.Close", "progress.Stop", "issuesClient.Close", "summary",
      "output.Close", "hostMap.Close">>

\* the position of a shutdown step in ShutdownOrder
Rank(step) == CHOOSE i \in 1..Len(ShutdownOrder) : ShutdownOrder[i] = step

\* the shutdown steps this run has to take: a close of a nil client is skipped
ExpectedShutdown ==
    LET keep(step) == /\ step = "interactsh.Close" => interactsh = "client"
                      /\ step = "issuesClient.Close" => issuesClient = "client"
        F[i \in 0..Len(ShutdownOrder)] ==
            IF i = 0 THEN <<>>
            ELSE IF keep(ShutdownOrder[i]) THEN Append(F[i - 1], ShutdownOrder[i])
                 ELSE F[i - 1]
    IN F[Len(ShutdownOrder)]

\* every unit task has finished and every pair has been executed
AllUnitsFinished ==
    /\ \A u \in Unit : ustate[u] = "done"
    /\ \A p \in Pairs : tstate[p[1]][p[2]] = "done"

Scanning == UnitsInFlight # {} \/ Executing # {}

\* some unit task has been launched
ScansBegun == \E u \in Unit : ustate[u] # "new"

\* C23: the target store is written once and then only read. While and
\* after the scans run the store holds all targets, no key is Set once the
\* first unit is launched, and the store is not closed while a task scans.
C23_StoreWriteOnceReadMany ==
    /\ [](ScansBegun => hostMap = targets)
    /\ [](Scanning => "hostMap.Close" \notin SeqToSet(shut))
    /\ [][hostMap' # hostMap => rpc = "populate" /\ ~ScansBegun]_vars

\* two targets were stored, four executions read them, the store is closed
C23_Witness ==
    /\ hostMap = 1..2 /\ Len(units) = 2
    /\ \A p \in Pairs : Len(Executions(p)) = 1
    /\ "hostMap.Close" \in SeqToSet(shut)
    /\ ~Scanning

----------------------------------------------------------------------------
(* C22 *)

\* New has read all its input
populated == ppc = "done"

\* the inputs as New stores them: the direct target as given, a line without
\* its surrounding white space
Normalised ==
    <<input.Target>> \o [i \in 1..Len(input.Stdin) |-> TrimSpace(input.Stdin[i])]
                     \o [i \in 1..Len(input.Targets) |-> TrimSpace(input.Targets[i])]

\* the positions of the non-empty inputs
NonEmptyInputs == {i \in 1..Len(Normalised) : Normalised[i] # <<>>}

\* C22: after the population the store holds exactly the distinct non-empty
\* inputs, inputCount is the number of keys of the store, and the count of
\* removed duplicates is the number of non-empty inputs minus inputCount.
C22_PopulationDeduplicates ==
    populated =>
        /\ pstore = {Normalised[i] : i \in NonEmptyInputs}
        /\ inputCount = Cardinality(pstore)
        /\ dupeCount = Cardinality(NonEmptyInputs) - inputCount

\* the same target three times, as direct target and on two lines of the
\* file, one of them with white space around it: one key, two removed
C22_Witness ==
    /\ populated
    /\ input.Target = <<"a">>
    /\ Len(input.Targets) = 2
    /\ \E i \in 1..2 : input.Targets[i] # <<"a">>
    /\ pstore = {<<"a">>}
    /\ inputCount = 1 /\ dupeCount = 2

----------------------------------------------------------------------------
(* C24, C25, C29 *)

\* RunEnumeration has computed both estimates
estimated == qpc # "build"

\* C24: the estimate computed after clustering is at most the estimate
\* computed before it.
C24_ClusteringNeverRaisesEstimate ==
    estimated => estimate.totalRequests <= estimate.unclusteredRequests

\* the clusters of more than one template that are merged into one unit
MergedClusters ==
    {i \in 1..Len(Cluster(plan.templates)) :
        Len(Cluster(plan.templates)[i]) > 1 /\ ~plan.OfflineHTTP}

\* the units that stand for a merged cluster
ClusterUnits == {u \in 1..Len(finalTemplates) : finalTemplates[u].kind = "cluster"}

\* the requests of the request the members of a cluster unit share
SharedRequests(u) == TotalRequests(plan.templates[finalTemplates[u].members[1]])

NothingResolved == Len(plan.templates) = 0 /\ plan.workflows = 0

\* C29: with no template and no workflow RunEnumeration gets no further
\* than the fatal exit, which logs one message; progress is not initialised
\* and no unit is executed.
C29_NoTemplatesIsFatal ==
    NothingResolved =>
        /\ qpc \in {"build", "count", "fatal"}
        /\ qpc = "fatal" => msgs = <<"Error, no templates were found.">>
        /\ qpc # "fatal" => msgs = <<>>
        /\ ~progressInit
        /\ xnext = 0

\* the run with targets but without templates has exited
C29_Witness ==
    /\ NothingResolved
    /\ plan.inputCount > 0
    /\ qpc = "fatal"

----------------------------------------------------------------------------
(* C26, C27, C28 *)

\* C26: a call that names a template that cannot be resolved or compiled
\* does not abort the scan: the process does not end while other pairs are
\* still to be executed.
C26_FailedRunIsLocal ==
    wpc = "exited" => pending = 0

\* C27: run returns true exactly when the execution of the template
\* produced a Matched Operators Result, whichever step produced it.
C27_RunIffMatched ==
    \A i \in 1..Len(wruns) :
        wruns[i].fn = "run" =>
            (wruns[i].ret <=> \E k \in 1..Len(wruns[i].events) : wruns[i].events[k].Matched)

\* C28: every nested run executes against the target the workflow was
\* started on.
C28_NestedRunsOnBoundTarget ==
    \A i \in 1..Len(wruns) : wruns[i].target = wf.input

----------------------------------------------------------------------------
(* C30 *)

\* CreateIssue has returned for an event that passed the filters and that
\* the dedupe storage called unique
forwarded == cpc = "done" /\ cunique = "unique"

\* the calls of the trackers resp. exporters, in call order
CallsOf(kind) == SelectSeq(ccalls, LAMBDA c : c.kind = kind)

\* the tracker and exporter calls that failed
FailedCalls == {k \in 1..Len(ccalls) : ~ccalls[k].ok}

\* C30: for a unique event that passes the filters every tracker and every
\* exporter is called exactly once, whatever failed before, and the error
\* returned holds every failure exactly once; it is nil only when no
\* tracker and no exporter failed.
C30_AllCalledErrorsAggregated ==
    forwarded =>
        /\ Len(CallsOf("tracker")) = client.trackers
        /\ \A i \in 1..client.trackers : CallsOf("tracker")[i].i = i
        /\ Len(CallsOf("exporter")) = client.exporters
        /\ \A i \in 1..client.exporters : CallsOf("exporter")[i].i = i
        /\ \A k \in FailedCalls :
              Cardinality({j \in 1..Len(cret) : cret[j] = <<ccalls[k].kind, ccalls[k].i>>}) = 1
        /\ cret = <<>> => FailedCalls = {}

\* the first tracker and the first exporter failed, the second ones were
\* still called, and both failures are in the error returned
C30_Witness ==
    /\ forwarded
    /\ client.trackers = 2 /\ client.exporters = 2
    /\ Len(ccalls) = 4
    /\ ~ccalls[1].ok /\ ccalls[2].ok /\ ~ccalls[3].ok /\ ccalls[4].ok
    /\ cret = << <<"tracker", 1>>, <<"exporter", 1>> >>

----------------------------------------------------------------------------
(* C31 *)

\* C31: over any sequence of CreateIssue calls Index answers true for the
\* first occurrence of an event and false for every later one, an event is
\* forwarded only by the call that indexed it first, and no tracker or
\* exporter receives the same event twice.
C31_ForwardedOnce ==
    /\ \A k \in 1..Len(ilog) :
          ilog[k].unique <=> (\A j \in 1..(k - 1) : ilog[j].event # ilog[k].event)
    /\ \A a \in 1..Len(sent) : \A b \in 1..Len(sent) :
          (a < b /\ sent[a].kind = sent[b].kind /\ sent[a].i = sent[b].i)
              => sent[a].event # sent[b].event
    /\ \A a \in 1..Len(sent) :
          \E k \in 1..Len(ilog) : ilog[k].event = sent[a].event /\ ilog[k].unique

\* the same event was reported three times and passed the filters each
\* time; the one tracker received it once
C31_Witness ==
    /\ cpc = "done" /\ ncalls = 3
    /\ client.trackers = 1 /\ client.exporters = 0
    /\ Len(ilog) = 3
    /\ \A k \in 1..3 : ilog[k].event = "e1"
    /\ sent = <<[kind |-> "tracker", i |-> 1, event |-> "e1"]>>

----------------------------------------------------------------------------
(* C32, C33 *)

\* the pairs whose Execute / RunWorkflow call never returns
Hung == {p \in Pairs : tstate[p[1]][p[2]] = "hung"}

\* the pairs whose execution has not been started
NotStarted == {p \in Pairs : tstate[p[1]][p[2]] = "new"}

\* C32: one call that never returns blocks only its own task: as long as
\* another pair has not been started the run can take a step, so no state
\* is reached in which a pair waits for ever behind the hung call.
C32_HungBlocksOnlyItself ==
    (Cardinality(Hung) = 1 /\ NotStarted # {}) => ENABLED NextRunner

\* C33: the pools never deadlock while no call hangs, a slot is held only
\* by a goroutine that is not Done, and a run without a hung call reaches
\* its exit with both joins returned and every slot released.
C33_RunTerminates ==
    /\ []((Hung = {} /\ rpc # "exit") => ENABLED NextRunner)
    /\ [](joined => UnitsInFlight = {} /\ \A u \in Unit : TargetsInFlight(u) = {})
    /\ <>(rpc = "exit" \/ Hung # {})

\* two units on two targets with both limits 1 have run to the exit
C33_Witness ==
    /\ rpc = "exit"
    /\ limits = [TemplateThreads |-> 1, BulkSize |-> 1]
    /\ Len(units) = 2 /\ targets = 1..2
    /\ \A p \in Pairs : Len(Executions(p)) = 1

----------------------------------------------------------------------------
(* C36 *)

\* C36: when a request with a non-empty ID delivers an event without
\* Operators Result, the fields of the event are in previous afterwards,
\* under the request's keys, and the event is neither handed to the
\* callback of ExecuteWithResults nor written or counted as a match by
\* Execute.
C36_UnreportedEventIsRecorded ==
    [][(/\ Len(elog') = Len(elog) + 1
        /\ ~HasOperatorsResult(elog'[Len(elog')].ev)
        /\ requests[reqIdx].ID # "")
          => /\ \A f \in DOMAIN elog'[Len(elog')].ev.InternalEvent :
                   /\ PreviousKey(requests[reqIdx].ID, f) \in DOMAIN previous'
                   /\ previous'[PreviousKey(requests[reqIdx].ID, f)]
                          = elog'[Len(elog')].ev.InternalEvent[f]
             /\ emitted' = emitted
             /\ results' = results
      ]_vars

\* the first request, with an ID, delivered only an event without Operators
\* Result; the second request was handed its field in previous, and
\* nothing was emitted
C36_Witness ==
    /\ Len(elog) = 1 /\ Len(calls) = 2
    /\ requests[1].ID = "req1"
    /\ ~HasOperatorsResult(elog[1].ev)
    /\ "req1_token" \in DOMAIN calls[2].prev
    /\ calls[2].prev["req1_token"] = elog[1].ev.InternalEvent["token"]
    /\ emitted = 0 /\ results = FALSE

----------------------------------------------------------------------------
(* C35 *)

\* the result events of the reported events, <<event, result>>, in order
ResultEvents ==
    {p \in (1..Len(sevents)) \X (1..MaxResults) :
        /\ sevents[p[1]].OperatorsResult = "set"
        /\ p[2] <= sevents[p[1]].Results}

Times(log, p) == Cardinality({k \in DOMAIN log : log[k] = p})

\* C35: when Execute has returned, every result event of every reported
\* event was written to the output exactly once and counted by exactly one
\* IncrementMatched call, nothing else was written or counted, and a result
\* whose CreateIssue failed was written and counted like the others and the
\* call returned true.
C35_EveryResultWrittenOnce ==
    spc = "returned" =>
        /\ \A p \in ResultEvents : Times(swritten, p) = 1 /\ Times(scounted, p) = 1
        /\ Len(swritten) = Cardinality(ResultEvents)
        /\ Len(scounted) = Cardinality(ResultEvents)
        /\ \A k \in DOMAIN sissues :
              sissues[k][3] =>
                  /\ Times(swritten, <<sissues[k][1], sissues[k][2]>>) = 1
                  /\ Times(scounted, <<sissues[k][1], sissues[k][2]>>) = 1
                  /\ sret = "true"
        /\ sret = (IF ResultEvents # {} THEN "true" ELSE "false")

\* Execute returned true for one event with two results, the issue of the
\* first could not be created, and both results were written and counted
C35_Witness ==
    /\ spc = "returned" /\ sret = "true"
    /\ sevents = <<[OperatorsResult |-> "set", Results |-> 2]>>
    /\ sissues = <<<<1, 1, TRUE>>, <<1, 2, FALSE>>>>
    /\ swritten = <<<<1, 1>>, <<1, 2>>>>
    /\ scounted = <<<<1, 1>>, <<1, 2>>>>

----------------------------------------------------------------------------
(* C34 *)

\* the previous map after the callback has run for the events evs, from
\* an empty map
RECURSIVE PreviousAfter(_)
PreviousAfter(evs) ==
    IF evs = <<>> THEN EmptyMap
    ELSE StorePrevious(PreviousAfter(SubSeq(evs, 1, Len(evs) - 1)),
                       evs[Len(evs)].ID, evs[Len(evs)].ev.InternalEvent)

\* C34: the maps an invocation hands to a request are a function of the
\* events of the same invocation delivered before the call, whatever the
\* other invocation of the same Executer did in between: previous holds
\* exactly the fields the invocation's own callback stored, and every
\* dynamic value is one of an earlier event of the same invocation.
C34_ChainStateIsPerInvocation ==
    \A i \in Invocations : \A k \in DOMAIN icalls[i] :
        /\ icalls[i][k].previous
               = PreviousAfter(SubSeq(ievents[i], 1, icalls[i][k].after))
        /\ \A key \in DOMAIN icalls[i][k].dynamicValues :
              \E j \in 1..icalls[i][k].after :
                  /\ key \in DOMAIN ievents[i][j].ev.OperatorsResult.DynamicValues
                  /\ ievents[i][j].ev.OperatorsResult.DynamicValues[key]
                         = icalls[i][k].dynamicValues[key]

\* both invocations are inside their second request at the same time, and
\* each was handed the field of its own first event, with different values
C34_Witness ==
    /\ ipc = [i \in Invocations |-> "inreq"]
    /\ inext = [i \in Invocations |-> 2]
    /\ irequests[1].ID = "req1"
    /\ icalls["host1"][2].previous = [k \in {"req1_token"} |-> "abc123"]
    /\ icalls["host2"][2].previous = [k \in {"req1_token"} |-> "zzz"]

----------------------------------------------------------------------------
(* C37 *)

\* how often template k of availableTemplates is a member of unit u
MemberTimes(u, k) ==
    Cardinality({j \in DOMAIN finalTemplates[u].members : finalTemplates[u].members[j] = k})

\* the units template k is a member of
UnitsWith(k) == {u \in DOMAIN finalTemplates : MemberTimes(u, k) > 0}

\* C37: once the unit list is built, every parsed template is a member of
\* exactly one unit and is there once; a unit is a template of its own, with
\* its own request count, or a merged cluster of several templates, or a
\* workflow; in offline-HTTP mode there is no merged cluster; and the
\* workflows are the last units, one each, with no template clustered in.
C37_UnitsCoverTemplatesOnce ==
    qpc # "build" =>
        /\ \A k \in DOMAIN plan.templates :
              /\ Cardinality(UnitsWith(k)) = 1
              /\ \A u \in UnitsWith(k) : MemberTimes(u, k) = 1
        /\ \A u \in DOMAIN finalTemplates :
              /\ \A j \in DOMAIN finalTemplates[u].members :
                    finalTemplates[u].members[j] \in DOMAIN plan.templates
              /\ finalTemplates[u].kind = "template" =>
                    /\ Len(finalTemplates[u].members) = 1
                    /\ finalTemplates[u].TotalRequests
                           = TotalRequests(plan.templates[finalTemplates[u].members[1]])
              /\ finalTemplates[u].kind = "cluster" =>
                    /\ Len(finalTemplates[u].members) > 1
                    /\ ~plan.OfflineHTTP
              /\ finalTemplates[u].kind = "workflow" <=>
                    u > Len(finalTemplates) - plan.workflows
              /\ finalTemplates[u].kind = "workflow" => finalTemplates[u].members = <<>>
        /\ Len(finalTemplates) >= plan.workflows

\* three templates of which the first and the third share their request,
\* and a workflow: a merged cluster, a template of its own and the workflow
C37_Witness ==
    /\ qpc # "build"
    /\ ~plan.OfflineHTTP /\ plan.workflows = 1
    /\ Len(plan.templates) = 3
    /\ Len(finalTemplates) = 3
    /\ finalTemplates[1].kind = "cluster" /\ finalTemplates[1].members = <<1, 3>>
    /\ finalTemplates[2].kind = "template" /\ finalTemplates[2].members = <<2>>
    /\ finalTemplates[3].kind = "workflow"

----------------------------------------------------------------------------
(* C38 *)

\* C38 as claimed: when the receivers are Results as Operators.Execute
\* returns them (PayloadValues never allocated), no Merge call panics,
\* whatever the merged Result carries, and after a.Merge(b) the receiver
\* holds every key of b's PayloadValues and DynamicValues.  Line 88 assigns
\* into the nil map of the receiver as soon as the other Result carries a
\* payload value.
C38_MergeNeverFails ==
    /\ (~ma.PayloadValues.alloc /\ ~mb.PayloadValues.alloc) => mstep # "panic"
    /\ (mstep = "xy" /\ ~ma.PayloadValues.alloc) =>
          /\ DOMAIN mb.PayloadValues.kv \subseteq DOMAIN mx.PayloadValues.kv
          /\ DOMAIN mb.DynamicValues \subseteq DOMAIN mx.DynamicValues

\* what does hold: a Merge call panics only on a receiver without
\* PayloadValues map, and a call that completes leaves every key of the
\* other Result's PayloadValues and DynamicValues in the receiver
MergeCompletesOnAllocated ==
    /\ (ma.PayloadValues.alloc /\ mb.PayloadValues.alloc) => mstep # "panic"
    /\ mstep = "xy" =>
          /\ DOMAIN mb.PayloadValues.kv \subseteq DOMAIN mx.PayloadValues.kv
          /\ DOMAIN mb.DynamicValues \subseteq DOMAIN mx.DynamicValues

----------------------------------------------------------------------------
(* C39 *)

\* the trimmed pieces of a comma-separated string
Pieces(s) == {TrimSpace(Split(s)[i]) : i \in DOMAIN Split(s)}

\* one of the filter's tags is among the tags of the event
TagsMeet ==
    \E t \in Pieces(filter.Tags) : \E e \in Pieces(fevent.tags) : EqualFold(t, e)

\* the event's severity is one of the filter's severities
SeverityListed ==
    \E s \in Pieces(filter.Severity) : EqualFold(s, fevent.severity)

\* C39 as claimed: a compiled Filter with tags and an empty severity matches an
\* event exactly when one of its tags is among the event's tags, whatever
\* the event's severity; the severity list decides only for a Filter with
\* a severity.  Compile leaves one empty entry in the severity list of a
\* Filter without severity, and GetMatch then never looks at the tags.
C39_TagsOnlyFilterMatchesByTags ==
    fpc = "matched" =>
        /\ (filter.Severity = <<>> /\ filter.Tags # <<>>) => (fmatch <=> TagsMeet)
        /\ filter.Severity # <<>> => (fmatch <=> SeverityListed)

\* what does hold: the compiled severity list is never empty and GetMatch
\* answers from it alone; a Filter without severity matches exactly the
\* events without severity
SeverityAlwaysDecides ==
    /\ fpc \in {"compiled", "matched"} => Len(filter.severity) > 0
    /\ fpc = "matched" =>
          /\ fmatch <=> SeverityListed
          /\ filter.Severity = <<>> => (fmatch <=> fevent.severity = <<>>)

----------------------------------------------------------------------------
(* C40 *)

\* C40 as claimed: when Compile has returned nil there is one compiled
\* address for each declared address, in the order of declaration, with the
\* host of that address, and its tls is true exactly when that very address
\* carried the "tls://" prefix.  The flag is not set back, so an address
\* declared after a tls one is compiled with tls = true as well.
C40_TLSPerAddress ==
    npc = "compiled" =>
        /\ Len(nreq.addresses) = Len(nreq.Address)
        /\ \A i \in DOMAIN nreq.addresses :
              /\ nreq.addresses[i].ip = nreq.Address[i].host
              /\ nreq.addresses[i].tls <=> HasTLSPrefix(nreq.Address[i])

\* what does hold: one compiled address per declared one, in order, and
\* tls is true exactly from the first address with the prefix onwards
TLSFromFirstPrefixOn ==
    npc = "compiled" =>
        /\ Len(nreq.addresses) = Len(nreq.Address)
        /\ \A i \in DOMAIN nreq.addresses :
              /\ nreq.addresses[i].ip = nreq.Address[i].host
              /\ nreq.addresses[i].tls <=>
                     \E j \in 1..i : HasTLSPrefix(nreq.Address[j])

============================================================================
